---- MODULE Spec2Model ----
(***************************************************************************)
(* Model of the log replay / aggregation engine of HLLLogUtilities         *)
(* (src/lib/scores.py): PlayerData, DataStore, MatchData.from_logs and the *)
(* merge operators.  Python dicts are modelled as functions with a finite  *)
(* domain, datetimes and timedeltas as integers (seconds), None by the     *)
(* values None (objects, strings) and NoTime (datetimes).                  *)
(***************************************************************************)
EXTENDS Integers, Sequences, FiniteSets

VARIABLES
    pc,           \* "idle": no from_logs call running; "loop": inside the for loop
    logs,         \* from_logs: the list being replayed (after the reversal)
    range,        \* from_logs: the ExportRange argument
    logs_start,   \* from_logs local
    logs_end,     \* from_logs local
    idx,          \* from_logs: position of the for loop in logs (1-based)
    data,         \* from_logs local: dict steam_id -> PlayerData
    match_ended,  \* from_logs local: last match-ended log seen, or None
    calls,        \* the logs argument of every from_logs call made so far
    returns,      \* the outcome of every from_logs call that has ended
    upc,          \* DataStore.union: "idle", "loop" or "done"
    uidx,         \* DataStore.union: position of the for loop in matches
    res,          \* DataStore.union local: the running aggregate
    group_stats,  \* MatchGroup.stats: the aggregate the last read returned, <<>> if none
    wcall,        \* DataStore.map_weapons: the arguments of the call, <<>> if none
    wret,         \* DataStore.map_weapons: the value returned, <<>> if none
    wtable,       \* get_weapons_table: the arguments and the table built, <<>> if none
    wtks,         \* weapons_teamkilled_with: the DataStore, arguments and result
    registered,   \* HLLCaptureSession: the session is in SESSIONS
    deleted,      \* HLLCaptureSession: delete() has marked the session deleted
    start_time,   \* HLLCaptureSession.start_time
    end_time,     \* HLLCaptureSession.end_time
    now,          \* datetime.now(tz=timezone.utc)
    active,       \* the value the last active_in() call returned, <<>> if none
    start_task,   \* _start_task is scheduled and has not run
    stop_task,    \* _stop_task is scheduled and has not run
    deactivating, \* a deactivate() scheduled by delete() has not run yet
    gpc,          \* the gatherer loop: "idle", "ready", "updating", "after_loop"
    stopping,     \* gatherer.stop() was called and the loop has not ended yet
    _logs,        \* HLLCaptureSession._logs, the buffer of captured log lines
    storage,      \* the rows of the table of the session, in the order inserted
    captured,     \* the number of log lines appended to the buffer so far
    got           \* the value the last get_logs() call returned, <<>> if none

vars == <<pc, logs, range, logs_start, logs_end, idx, data, match_ended,
          calls, returns, upc, uidx, res, group_stats, wcall, wret, wtable, wtks,
          registered, deleted, start_time, end_time, now, active, start_task,
          stop_task, deactivating, gpc, stopping, _logs, storage, captured, got>>

replayVars == <<pc, logs, range, logs_start, logs_end, idx, data, match_ended,
                calls, returns>>
unionVars == <<upc, uidx, res, group_stats>>
weaponVars == <<wcall, wret, wtable, wtks>>
clockVars == <<start_time, end_time, now, active>>
captureVars == <<registered, deleted, start_task, stop_task, deactivating, gpc,
                 stopping, _logs, storage, captured, got>>
sessionVars == <<clockVars, captureVars>>

-----------------------------------------------------------------------------
(* Bounds of the model *)

MaxLogs == 3
MaxTime == 2
MaxMatches == 3
MaxCount == 2
MaxTables == 2

-----------------------------------------------------------------------------
(* Python values *)

None == "null"
NoTime == -1

Allies == "Allies"
Axis == "Axis"
Any == "Any"

EmptyDict == [k \in {} |-> 0]

\* the outcome of a call: the exception raised, or the value returned
Raised(exc) == [error |-> exc, value |-> <<>>]
Returned(v) == [error |-> None, value |-> <<v>>]

Max(a, b) == IF a > b THEN a ELSE b

Reverse(s) == [k \in 1..Len(s) |-> s[Len(s) + 1 - k]]

\* dict.get(k, default)
Get(d, k, default) == IF k \in DOMAIN d THEN d[k] ELSE default

\* try: d[k] += 1 / except KeyError: d[k] = 1
Incr(d, k) ==
    [x \in DOMAIN d \cup {k} |-> IF x = k THEN Get(d, k, 0) + 1 ELSE d[x]]

\* d[k] = v
Put(d, k, v) == [x \in DOMAIN d \cup {k} |-> IF x = k THEN v ELSE d[x]]

\* operator.add and operator.sub, named by the method they dispatch to
OpAdd == "int.__add__"
OpSub == "int.__sub__"
OpAddPlayers == "PlayerData.__add__"

RECURSIVE PlayerAdd(_, _)
\* op(x, y)
Operator(op, x, y) ==
    CASE op = OpAdd -> x + y
      [] op = OpSub -> x - y
      [] op = OpAddPlayers -> PlayerAdd(x, y)

combine_dicts(a, b, op) ==
    [k \in DOMAIN a \cup DOMAIN b |->
        IF k \in DOMAIN a /\ k \in DOMAIN b THEN Operator(op, a[k], b[k])
        ELSE IF k \in DOMAIN b THEN b[k]
        ELSE a[k]]

\* the keys max(d, key=d.get) can return: Python returns the first inserted of them
MaxKeys(d) == {k \in DOMAIN d : \A j \in DOMAIN d : d[j] <= d[k]}

RECURSIVE SumOver(_, _)
SumOver(f, S) ==
    IF S = {} THEN 0
    ELSE LET x == CHOOSE y \in S : TRUE IN f[x] + SumOver(f, S \ {x})

SumDict(d) == SumOver(d, DOMAIN d)

-----------------------------------------------------------------------------
(* PlayerData *)

PlayerData(steam_id, name, match_start, match_end) ==
    [steam_id |-> steam_id,
     names |-> [k \in {name} |-> 1],
     faction |-> None,
     kills |-> 0,
     deaths |-> 0,
     allied_kills |-> 0,
     axis_kills |-> 0,
     allied_deaths |-> 0,
     axis_deaths |-> 0,
     weapons |-> [k \in {"None"} |-> 0],
     causes |-> [k \in {"None"} |-> 0],
     teamkills |-> 0,
     suicides |-> 0,
     _curr_streak |-> 0,
     killstreak |-> 0,
     _curr_deathstreak |-> 0,
     deathstreak |-> 0,
     _victims |-> EmptyDict,
     _nemeses |-> EmptyDict,
     _playtime |-> 0,
     _sess_start |-> match_start,
     _match_end |-> match_end,
     num_matches_played |-> 1]

\* update_faction where the last observation wins
update_faction_latest(self, faction) == [self EXCEPT !.faction = faction]

update_faction(self, faction) ==
    IF self.faction = None THEN [self EXCEPT !.faction = faction]
    ELSE IF self.faction = Any THEN self
    ELSE IF self.faction # faction THEN [self EXCEPT !.faction = Any]
    ELSE self

\* victim is the steam_id of the victim's PlayerData (its hash and equality)
kill(self, victim, weapon, faction) ==
    LET streak == self._curr_streak + 1 IN
    [self EXCEPT
        !.kills = @ + 1,
        !.allied_kills = IF faction = Allies THEN @ + 1 ELSE @,
        !.axis_kills = IF faction = Axis THEN @ + 1 ELSE @,
        !.weapons = Incr(@, weapon),
        !._curr_streak = streak,
        !.killstreak = IF streak > @ THEN streak ELSE @,
        !._curr_deathstreak = 0,
        !._victims = Incr(@, victim)]

\* death that leaves the current kill streak running
death_keeps_streak(self, nemesis, weapon, faction) ==
    LET streak == self._curr_deathstreak + 1 IN
    [self EXCEPT
        !.deaths = @ + 1,
        !.allied_deaths = IF faction = Allies THEN @ + 1 ELSE @,
        !.axis_deaths = IF faction = Axis THEN @ + 1 ELSE @,
        !.causes = Incr(@, weapon),
        !._curr_deathstreak = streak,
        !.deathstreak = IF streak > @ THEN streak ELSE @,
        !._nemeses = Incr(@, nemesis)]

teamkill(self, victim, weapon, faction) ==
    [self EXCEPT !.teamkills = @ + 1, !._victims = Incr(@, victim)]

death(self, nemesis, weapon, faction) ==
    LET streak == self._curr_deathstreak + 1 IN
    [self EXCEPT
        !.deaths = @ + 1,
        !.allied_deaths = IF faction = Allies THEN @ + 1 ELSE @,
        !.axis_deaths = IF faction = Axis THEN @ + 1 ELSE @,
        !.causes = Incr(@, weapon),
        !._curr_streak = 0,
        !._curr_deathstreak = streak,
        !.deathstreak = IF streak > @ THEN streak ELSE @,
        !._nemeses = Incr(@, nemesis)]

\* suicide that is not counted as a suicide
suicide_uncounted(self, faction) ==
    LET streak == self._curr_deathstreak + 1 IN
    [self EXCEPT
        !.deaths = @ + 1,
        !.allied_deaths = IF faction = Allies THEN @ + 1 ELSE @,
        !.axis_deaths = IF faction = Axis THEN @ + 1 ELSE @,
        !._curr_streak = 0,
        !._curr_deathstreak = streak,
        !.deathstreak = IF streak > @ THEN streak ELSE @]

suicide(self, faction) ==
    LET streak == self._curr_deathstreak + 1 IN
    [self EXCEPT
        !.deaths = @ + 1,
        !.suicides = @ + 1,
        !.allied_deaths = IF faction = Allies THEN @ + 1 ELSE @,
        !.axis_deaths = IF faction = Axis THEN @ + 1 ELSE @,
        !._curr_streak = 0,
        !._curr_deathstreak = streak,
        !.deathstreak = IF streak > @ THEN streak ELSE @]

\* leave that keeps the session open
leave_keeps_session(self, timestamp) ==
    IF self._sess_start = NoTime THEN self
    ELSE [self EXCEPT !._playtime = @ + (timestamp - self._sess_start)]

\* playtime without the extrapolation of the open session
playtime_closed_sessions(self) == self._playtime

\* leave that counts the time since the start of the logs when offline
leave_counts_offline(self, timestamp) ==
    [self EXCEPT !._playtime = @ + (timestamp - (IF self._sess_start = NoTime
                                                  THEN 0 ELSE self._sess_start)),
                 !._sess_start = NoTime]

join(self, timestamp) == [self EXCEPT !._sess_start = timestamp]

leave(self, timestamp) ==
    IF self._sess_start = NoTime
    THEN [self EXCEPT !._sess_start = NoTime]
    ELSE [self EXCEPT !._playtime = @ + (timestamp - self._sess_start),
                      !._sess_start = NoTime]

playtime(self) ==
    IF self._sess_start # NoTime
    THEN self._playtime + (self._match_end - self._sess_start)
    ELSE self._playtime

\* round(a / b, 2) in hundredths, ties to the even hundredth
Round2(a, b) ==
    LET q == (100 * a) \div b
        r == (100 * a) % b
    IN IF 2 * r > b \/ (2 * r = b /\ q % 2 = 1) THEN q + 1 ELSE q

\* PlayerData.kill_death_ratio and kills_per_minute, in hundredths
player_kill_death_ratio(self) ==
    IF self.deaths # 0 THEN Returned(Round2(self.kills, self.deaths))
    ELSE Returned(100 * self.kills)

kills_per_minute(self) ==
    IF playtime(self) # 0 THEN Returned(Round2(60 * self.kills, playtime(self)))
    ELSE Returned(100 * self.kills)

\* the candidates of PlayerData.name (one key unless counts tie)
name(self) == MaxKeys(self.names)

\* _new_attr if _new_attr else {'None': 0}
NoneIfEmpty(d) == IF DOMAIN d = {} THEN [k \in {"None"} |-> 0] ELSE d

\* __add__ up to res.names: the fields of the result but its faction
Summed(self, other) ==
    [PlayerData(self.steam_id, CHOOSE n \in name(self) : TRUE,
                NoTime, self._match_end) EXCEPT
        !.kills = self.kills + other.kills,
        !.deaths = self.deaths + other.deaths,
        !.allied_kills = self.allied_kills + other.allied_kills,
        !.axis_kills = self.axis_kills + other.axis_kills,
        !.allied_deaths = self.allied_deaths + other.allied_deaths,
        !.axis_deaths = self.axis_deaths + other.axis_deaths,
        !.teamkills = self.teamkills + other.teamkills,
        !.suicides = self.suicides + other.suicides,
        !.num_matches_played = self.num_matches_played + other.num_matches_played,
        !.weapons = NoneIfEmpty(combine_dicts(self.weapons, other.weapons, OpAdd)),
        !.causes = NoneIfEmpty(combine_dicts(self.causes, other.causes, OpAdd)),
        !._victims = combine_dicts(self._victims, other._victims, OpAdd),
        !._nemeses = combine_dicts(self._nemeses, other._nemeses, OpAdd),
        !._playtime = playtime(self) + playtime(other),
        !.killstreak = Max(self.killstreak, other.killstreak),
        !.deathstreak = Max(self.deathstreak, other.deathstreak),
        !.names = combine_dicts(self.names, other.names, OpAdd)]

\* __add__ that takes the kill streak maximum of self alone
PlayerAdd_own_streak(self, other) ==
    update_faction([Summed(self, other) EXCEPT
                        !.killstreak = self.killstreak,
                        !.faction = self.faction],
                   other.faction)

PlayerAdd(self, other) ==
    update_faction([Summed(self, other) EXCEPT !.faction = self.faction],
                   other.faction)

-----------------------------------------------------------------------------
(* DataStore: players is kept as the dict {p.steam_id: p} that __add__ builds *)
(* of it; from_logs, __add__ and get_data_for_faction give no two players     *)
(* one steam_id.                                                              *)

DataStore(duration, players) == [duration |-> duration, players |-> players]

total_kills(self) ==
    SumDict([k \in DOMAIN self.players |-> self.players[k].kills])
total_teamkills(self) ==
    SumDict([k \in DOMAIN self.players |-> self.players[k].teamkills])
total_deaths(self) ==
    SumDict([k \in DOMAIN self.players |-> self.players[k].deaths])
total_suicides(self) ==
    SumDict([k \in DOMAIN self.players |-> self.players[k].suicides])
total_time_played(self) ==
    SumDict([k \in DOMAIN self.players |-> playtime(self.players[k])])
total_allied_kills(self) ==
    SumDict([k \in DOMAIN self.players |-> self.players[k].allied_kills])
total_axis_kills(self) ==
    SumDict([k \in DOMAIN self.players |-> self.players[k].axis_kills])
total_allied_deaths(self) ==
    SumDict([k \in DOMAIN self.players |-> self.players[k].allied_deaths])
total_axis_deaths(self) ==
    SumDict([k \in DOMAIN self.players |-> self.players[k].axis_deaths])

\* a / b: the quotient as the fraction num/den, ZeroDivisionError when b is 0
Div(a, b) ==
    IF b = 0 THEN Raised("ZeroDivisionError") ELSE Returned([num |-> a, den |-> b])

kill_death_ratio(self) == Div(total_kills(self), total_deaths(self))
avg_kills(self) == Div(total_kills(self), Cardinality(DOMAIN self.players))
avg_teamkills(self) == Div(total_teamkills(self), Cardinality(DOMAIN self.players))
avg_deaths(self) == Div(total_deaths(self), Cardinality(DOMAIN self.players))
avg_time_played(self) ==
    Div(total_time_played(self), Cardinality(DOMAIN self.players))
avg_kills_per_min(self) == Div(total_kills(self) * 60, self.duration)
avg_deaths_per_min(self) == Div(total_deaths(self) * 60, self.duration)

\* __add__ by dict.update: a steam id of both keeps the accumulator of other
DataStoreAdd_update(self, other) ==
    DataStore(self.duration + other.duration,
              [k \in DOMAIN self.players \cup DOMAIN other.players |->
                  IF k \in DOMAIN other.players THEN other.players[k]
                  ELSE self.players[k]])

DataStoreAdd(self, other) ==
    DataStore(self.duration + other.duration,
              combine_dicts(self.players, other.players, OpAddPlayers))

\* dict(a); a.update(b)
Update(a, b) == [k \in DOMAIN a \cup DOMAIN b |-> IF k \in DOMAIN b THEN b[k] ELSE a[k]]

RECURSIVE UpdateAll(_, _)
UpdateAll(acc, ms) ==
    IF ms = <<>> THEN acc ELSE UpdateAll(Update(acc, Head(ms)), Tail(ms))

\* new_map built from the tables in the order given
new_map_in_order(mappings) == UpdateAll(EmptyDict, mappings)

\* {old: new for d in mappings[::-1] for old, new in d.items()}
new_map(mappings) == UpdateAll(EmptyDict, Reverse(mappings))

map_weapons(weapons, mappings, skip_unmapped) ==
    IF mappings = <<>> THEN weapons
    ELSE LET nm == new_map(mappings)
             target(w) == IF w \in DOMAIN nm THEN nm[w] ELSE w
             kept == {w \in DOMAIN weapons : w \in DOMAIN nm \/ ~skip_unmapped}
         IN [c \in {target(w) : w \in kept} |->
                SumOver(weapons, {w \in kept : target(w) = c})]

\* sum of the dicts f(p) of the players, by combine_dicts
RECURSIVE CombineAll(_, _)
CombineAll(ds, S) ==
    IF S = {} THEN EmptyDict
    ELSE LET x == CHOOSE y \in S : TRUE
         IN combine_dicts(CombineAll(ds, S \ {x}), ds[x], OpAdd)

weapons_killed_with(self, mappings, skip_unmapped) ==
    map_weapons(CombineAll([k \in DOMAIN self.players |-> self.players[k].weapons],
                           DOMAIN self.players),
                mappings, skip_unmapped)

weapons_died_to(self, mappings, skip_unmapped) ==
    map_weapons(CombineAll([k \in DOMAIN self.players |-> self.players[k].causes],
                           DOMAIN self.players),
                mappings, skip_unmapped)

-----------------------------------------------------------------------------
(* MatchData *)

\* int(s) of the strings that can stand in a score message; int raises
\* ValueError on any other
IntOf == [s \in {"0", "1", "2"} |-> CASE s = "0" -> 0 [] s = "1" -> 1 [] s = "2" -> 2]

\* message is the list message.split(' - ')
MatchData(players, duration, map, team1_score, team2_score) ==
    IF team1_score \notin DOMAIN IntOf \/ team2_score \notin DOMAIN IntOf
    THEN Raised("ValueError")
    ELSE Returned([duration |-> duration,
                   players |-> players,
                   map |-> map,
                   team1_score |-> IntOf[team1_score],
                   team2_score |-> IntOf[team2_score]])

winner(self) ==
    IF self.team1_score > self.team2_score THEN Allies
    ELSE IF self.team1_score < self.team2_score THEN Axis
    ELSE Any

\* a loser that is the winner's faction
loser_is_winner(self) == winner(self)

loser(self) ==
    IF self.team1_score < self.team2_score THEN Allies
    ELSE IF self.team1_score > self.team2_score THEN Axis
    ELSE Any

get_data_for_faction(self, faction) ==
    DataStore(self.duration,
              [k \in {j \in DOMAIN self.players : self.players[j].faction = faction}
                  |-> self.players[k]])

-----------------------------------------------------------------------------
(* The static table mappings.WEAPONS (raw log name -> display name) *)

WEAPONS ==
    [w \in {"M1 GARAND", "MP40"} |->
        IF w = "M1 GARAND" THEN "M1 Garand" ELSE "MP 40"]

-----------------------------------------------------------------------------
(* MatchData.from_logs: the body of the for loop *)

\* the faction of a log read as it stands, None when the log has no team
FactionOf_as_logged(team) == team

\* Faction(team) if team else Faction.Any
FactionOf(team) == IF team # None THEN team ELSE Any

\* killer_data and victim_data are one object when both are data[steam_id] of
\* one steam_id; h.same says so, and then a call on either acts on that object
LoopBody(d, log, start, end) ==
    LET OnKiller(h, F(_)) ==
            IF h.same THEN [h EXCEPT !.killer = F(h.killer), !.victim = F(h.killer)]
            ELSE [h EXCEPT !.killer = F(h.killer)]
        OnVictim(h, F(_)) ==
            IF h.same THEN [h EXCEPT !.killer = F(h.victim), !.victim = F(h.victim)]
            ELSE [h EXCEPT !.victim = F(h.victim)]
        pid == log.player_steamid
        pid2 == log.player2_steamid
        has_victim == pid2 \in DOMAIN d \/ pid2 # None
        h0 == [killer |-> IF pid \in DOMAIN d THEN d[pid]
                          ELSE PlayerData(pid, log.player_name, start, end),
               victim |-> IF pid2 \in DOMAIN d THEN d[pid2]
                          ELSE PlayerData(pid2, log.player2_name, start, end),
               same |-> pid = pid2 /\ pid \in DOMAIN d]
        killer_faction == FactionOf(log.player_team)
        victim_faction == FactionOf(log.player2_team)
        weapon == IF log.weapon # None /\ log.weapon \in DOMAIN WEAPONS
                  THEN WEAPONS[log.weapon] ELSE log.weapon
        f1 == OnKiller(h0, LAMBDA p : update_faction(p, killer_faction))
        f2 == OnVictim(f1, LAMBDA p : update_faction(p, victim_faction))
        h == CASE log.type = "player_kill" ->
                    OnVictim(
                        OnKiller(f2, LAMBDA p : kill(p, pid2, weapon, killer_faction)),
                        LAMBDA p : death(p, pid, weapon, victim_faction))
               [] log.type = "player_teamkill" ->
                    OnVictim(
                        OnKiller(f2, LAMBDA p : teamkill(p, pid2, weapon, killer_faction)),
                        LAMBDA p : death(p, pid, weapon, victim_faction))
               [] log.type = "player_suicide" ->
                    OnKiller(f1, LAMBDA p : suicide(p, killer_faction))
               [] log.type = "player_join_server" ->
                    OnKiller(h0, LAMBDA p : join(p, log.event_time))
               [] log.type = "player_leave_server" ->
                    OnKiller(h0, LAMBDA p : leave(p, log.event_time))
               [] log.type = "player_switch_team" ->
                    IF log.old # None /\ log.new # None
                    THEN OnKiller(h0, LAMBDA p : update_faction(p, Any))
                    ELSE IF log.new # None
                    THEN OnKiller(h0, LAMBDA p : update_faction(p, log.new))
                    ELSE h0
               [] OTHER -> h0
        d1 == Put(d, pid, h.killer)
    IN IF has_victim THEN Put(d1, pid2, h.victim) ELSE d1

-----------------------------------------------------------------------------
(* Inputs: log lines (lib.storage.LogLine) and export ranges *)

LogLine(type, pid, pname, pteam, pid2, pname2, pteam2, weapon, message, old, new) ==
    [type |-> type, event_time |-> 0,
     player_steamid |-> pid, player_name |-> pname, player_team |-> pteam,
     player2_steamid |-> pid2, player2_name |-> pname2, player2_team |-> pteam2,
     weapon |-> weapon, message |-> message, old |-> old, new |-> new]

NameOf(pid) == IF pid = "p1" THEN "Ann" ELSE IF pid = "p2" THEN "Bob" ELSE None

Kill(pid, pteam, pid2, pteam2, weapon) ==
    LogLine("player_kill", pid, NameOf(pid), pteam, pid2, NameOf(pid2), pteam2,
            weapon, <<>>, None, None)
Teamkill(pid, pteam, pid2, pteam2, weapon) ==
    LogLine("player_teamkill", pid, NameOf(pid), pteam, pid2, NameOf(pid2), pteam2,
            weapon, <<>>, None, None)
Suicide(pid, pteam) ==
    LogLine("player_suicide", pid, NameOf(pid), pteam, None, None, None,
            None, <<>>, None, None)
Join(pid) ==
    LogLine("player_join_server", pid, NameOf(pid), None, None, None, None,
            None, <<>>, None, None)
Leave(pid) ==
    LogLine("player_leave_server", pid, NameOf(pid), None, None, None, None,
            None, <<>>, None, None)
Switch(pid, old, new) ==
    LogLine("player_switch_team", pid, NameOf(pid), None, None, None, None,
            None, <<>>, old, new)
\* message is given as message.split(' - '), the only use from_logs makes of it
MatchEnded(message) ==
    LogLine("server_match_ended", None, None, None, None, None, None,
            None, message, None, None)

CombatEvents ==
    {Kill("p1", Allies, "p2", Axis, "M1 GARAND"),
     Kill("p2", Axis, "p1", Allies, "MP40"),
     Kill("p1", Allies, "p1", Allies, "M1 GARAND"),
     Teamkill("p1", Allies, "p2", Allies, "M1 GARAND"),
     Teamkill("p2", Axis, "p2", Axis, "FLARE GUN"),
     Suicide("p1", Allies),
     Suicide("p2", Axis)}

FactionEvents ==
    {Kill("p1", None, "p2", Axis, "MP40"),
     Kill("p1", Allies, "p2", None, "MP40"),
     Kill("p2", Axis, "p1", Axis, "MP40"),
     Suicide("p1", None),
     Switch("p1", None, Axis),
     Switch("p1", Allies, Axis),
     Switch("p1", None, None)}

SessionEvents ==
    {Join("p1"), Leave("p1"), Join("p2"), Leave("p2"),
     Kill("p1", Allies, "p2", Axis, "MP40")}

ScoreEvents ==
    {Kill("p1", Allies, "p2", Axis, "M1 GARAND"),
     Kill("p2", Axis, "p1", Allies, "M1 GARAND"),
     MatchEnded(<<"2", "1">>),
     MatchEnded(<<"1", "2">>),
     MatchEnded(<<"1", "1">>),
     MatchEnded(<<"2">>),
     MatchEnded(<<"2", "1", "0">>),
     MatchEnded(<<"x", "1">>)}

\* kills by a weapon the server logs under the name None
UnnamedWeaponEvents ==
    {Kill("p1", Allies, "p2", Axis, "None"),
     Kill("p2", Axis, "p1", Allies, "MP40"),
     Suicide("p2", Axis)}

Times == 0..MaxTime

NonDecreasing(p) == \A k \in 1..(Len(p) - 1) : p[k] <= p[k + 1]
NonIncreasing(p) == \A k \in 1..(Len(p) - 1) : p[k] >= p[k + 1]

\* the event times of a list of n logs: in chronological order, or reversed
Monotone(n) == {p \in [1..n -> Times] : NonDecreasing(p) \/ NonIncreasing(p)}

Min(a, b) == IF a < b THEN a ELSE b

Ascending(n) == [k \in 1..n |-> Min(k - 1, MaxTime)]
Basic(n) == {Ascending(n), Reverse(Ascending(n)), [k \in 1..n |-> 0]}

\* the list of the events c with the event times p
Stamped(c, p) == [k \in DOMAIN c |-> [c[k] EXCEPT !.event_time = p[k]]]

\* the families of events the lists are drawn from, one family for each list
Families ==
    {CombatEvents, FactionEvents, ScoreEvents, SessionEvents, UnnamedWeaponEvents}

\* the event times of the lists of n logs of family E
Profiles(E, n) == IF E = SessionEvents THEN Monotone(n) ELSE Basic(n)

\* cogs.exports.ExportRange: the window the logs were read from
Ranges ==
    {[start_time |-> 0, end_time |-> MaxTime, duration |-> d, map_name |-> "Foy"] :
        d \in {NoTime, MaxTime + 1}}

-----------------------------------------------------------------------------
(* MatchData.from_logs as a process: entry, one loop iteration, return *)

Init ==
    /\ pc = "idle"
    /\ logs = <<>>
    /\ range = [start_time |-> 0, end_time |-> 0, duration |-> NoTime, map_name |-> None]
    /\ logs_start = NoTime
    /\ logs_end = NoTime
    /\ idx = 0
    /\ data = EmptyDict
    /\ match_ended = <<>>
    /\ calls = <<>>
    /\ returns = <<>>
    /\ upc = "idle"
    /\ uidx = 0
    /\ res = DataStore(0, EmptyDict)
    /\ group_stats = <<>>
    /\ wcall = <<>>
    /\ wret = <<>>
    /\ wtable = <<>>
    /\ wtks = <<>>
    /\ registered = FALSE
    /\ deleted = FALSE
    /\ start_time = NoTime
    /\ end_time = NoTime
    /\ now = 0
    /\ active = <<>>
    /\ start_task = FALSE
    /\ stop_task = FALSE
    /\ deactivating = FALSE
    /\ gpc = "idle"
    /\ stopping = FALSE
    /\ _logs = <<>>
    /\ storage = <<>>
    /\ captured = 0
    /\ got = <<>>

\* a variant of Index that delivers a default log line instead of raising
IndexDefault(S, k) ==
    IF k \in 1..Len(S) THEN Returned(S[k]) ELSE Returned(MatchEnded(<<>>))

\* S[k], which raises IndexError when the list has no such element
Index(S, k) ==
    IF k \in 1..Len(S) THEN Returned(S[k]) ELSE Raised("IndexError")

\* from_logs that replays the list as given
Ordered_as_given(S, start) == S

\* if logs_start != logs[0].event_time: logs.reverse()
Ordered(S, start) ==
    IF start # Index(S, 1).value[1].event_time THEN Reverse(S) ELSE S

FromLogs(S, r) ==
    /\ pc = "idle"
    /\ upc = "idle"
    /\ calls' = Append(calls, S)
    /\ LET first == Index(S, 1)
           last == Index(S, Len(S))
       IN IF first.error # None
          THEN /\ returns' = Append(returns, first)
               /\ UNCHANGED <<pc, logs, range, logs_start, logs_end, idx, data,
                              match_ended>>
          ELSE LET t1 == first.value[1].event_time
                   t2 == last.value[1].event_time
               IN /\ logs_start' = Min(t1, t2)
                  /\ logs_end' = Max(t1, t2)
                  /\ logs' = Ordered(S, Min(t1, t2))
                  /\ range' = r
                  /\ data' = EmptyDict
                  /\ match_ended' = <<>>
                  /\ idx' = 1
                  /\ pc' = "loop"
                  /\ UNCHANGED returns
    /\ UNCHANGED <<unionVars, weaponVars, sessionVars>>

ProcessLog ==
    /\ pc = "loop"
    /\ idx <= Len(logs)
    /\ match_ended' = IF logs[idx].type = "server_match_ended"
                      THEN <<logs[idx]>> ELSE match_ended
    /\ data' = LoopBody(data, logs[idx], logs_start, logs_end)
    /\ idx' = idx + 1
    /\ UNCHANGED <<pc, logs, range, logs_start, logs_end, calls, returns,
                   unionVars, weaponVars, sessionVars>>

\* duration = range.duration or logs_end - logs_start
Duration(r, start, end) ==
    IF r.duration # NoTime /\ r.duration # 0 THEN r.duration ELSE end - start

FromLogsResult(d, ended, r, start, end) ==
    IF ended # <<>>
    THEN LET parts == ended[1].message
         IN IF Len(parts) < 2 THEN Raised("IndexError")
            ELSE MatchData(d, Duration(r, start, end), r.map_name,
                           parts[1], parts[2])
    ELSE MatchData(d, Duration(r, start, end), r.map_name, "0", "0")

Return ==
    /\ pc = "loop"
    /\ idx > Len(logs)
    /\ returns' = Append(returns,
                         FromLogsResult(data, match_ended, range, logs_start, logs_end))
    /\ pc' = "idle"
    /\ UNCHANGED <<logs, range, logs_start, logs_end, idx, data, match_ended,
                   calls, unionVars, weaponVars, sessionVars>>

Call ==
    /\ Len(calls) = 0
    /\ \E n \in 0..MaxLogs : \E E \in Families :
          \E c \in [1..n -> E], p \in Profiles(E, n), r \in Ranges :
              FromLogs(Stamped(c, p), r)

Next == Call \/ ProcessLog \/ Return

Spec == Init /\ [][Next]_vars

-----------------------------------------------------------------------------
(* MatchGroup.stats, DataStore.union of the matches of a group, as a process *)

\* the matches of the group: the MatchData every ended from_logs call returned
RECURSIVE Returned_(_)
Returned_(rs) ==
    IF rs = <<>> THEN <<>>
    ELSE IF Head(rs).error = None
    THEN <<Head(rs).value[1]>> \o Returned_(Tail(rs))
    ELSE Returned_(Tail(rs))

matches == Returned_(returns)

\* MatchGroup.stats is a property: every read of it calls union again
UnionEnter ==
    /\ pc = "idle"
    /\ upc \in {"idle", "done"}
    /\ res' = DataStore(0, EmptyDict)
    /\ uidx' = 1
    /\ upc' = "loop"
    /\ UNCHANGED <<group_stats, replayVars, weaponVars, sessionVars>>

\* a union that accumulates into the first match of the group
UnionStep_into_first ==
    /\ upc = "loop"
    /\ uidx <= Len(matches)
    /\ res' = DataStoreAdd(res, matches[uidx])
    /\ uidx' = uidx + 1
    /\ LET first == CHOOSE k \in 1..Len(returns) :
                        /\ returns[k].error = None
                        /\ \A j \in 1..(k - 1) : returns[j].error # None
       IN returns' = [returns EXCEPT ![first].value =
                          <<[@[1] EXCEPT !.duration = res'.duration,
                                         !.players = res'.players]>>]
    /\ UNCHANGED <<upc, group_stats, pc, logs, range, logs_start, logs_end, idx,
                   data, match_ended, calls, weaponVars, sessionVars>>

\* res += match: DataStore has no __iadd__, so this is res = res + match
UnionStep ==
    /\ upc = "loop"
    /\ uidx <= Len(matches)
    /\ res' = DataStoreAdd(res, matches[uidx])
    /\ uidx' = uidx + 1
    /\ UNCHANGED <<upc, group_stats, replayVars, weaponVars, sessionVars>>

UnionReturn ==
    /\ upc = "loop"
    /\ uidx > Len(matches)
    /\ upc' = "done"
    /\ group_stats' = <<res>>
    /\ UNCHANGED <<uidx, res, replayVars, weaponVars, sessionVars>>

\* the logs of the matches of a group, each in chronological order
At(c) == [k \in 1..Len(c) |-> [c[k] EXCEPT !.event_time = Min(k - 1, MaxTime)]]

MergeInputs ==
    {At(<<Kill("p1", Allies, "p2", Axis, "M1 GARAND"),
          Kill("p1", Allies, "p2", Axis, "M1 GARAND")>>),
     At(<<Kill("p2", Allies, "p1", Axis, "MP40"),
          Kill("p2", Allies, "p1", Axis, "M1 GARAND")>>),
     At(<<Join("p2"), Leave("p1")>>),
     At(<<Switch("p1", Allies, Axis),
          Kill("p1", Allies, "p2", Axis, "MP40"),
          Teamkill("p1", Axis, "p2", Axis, "MP40"),
          Suicide("p1", Allies),
          Switch("p1", None, Axis)>>),
     At(<<Kill("p1", Allies, "p2", Axis, "MP40"),
          Teamkill("p1", Allies, "p1", Allies, "MP40"),
          MatchEnded(<<"2", "1">>)>>),
     At(<<Kill("p2", Axis, "p1", Allies, "MP40"),
          Leave("p2"),
          Suicide("p2", Axis)>>)}

MergeRange ==
    [start_time |-> 0, end_time |-> MaxTime, duration |-> NoTime, map_name |-> "Foy"]

CallMerge ==
    /\ Len(calls) < MaxMatches
    /\ \E S \in MergeInputs : FromLogs(S, MergeRange)

NextMerge ==
    CallMerge \/ ProcessLog \/ Return \/ UnionEnter \/ UnionStep \/ UnionReturn

SpecMerge == Init /\ [][NextMerge]_vars

-----------------------------------------------------------------------------
(* Replaying a list and the same list reversed *)

KillAs(pid, pname, pid2) ==
    LogLine("player_kill", pid, pname, Allies, pid2, NameOf(pid2), Axis,
            "MP40", <<>>, None, None)

ReverseEvents ==
    {KillAs("p1", "Ann", "p2"),
     KillAs("p1", "Annie", "p2"),
     Kill("p2", Axis, "p1", Allies, "M1 GARAND"),
     Leave("p1"),
     MatchEnded(<<"2", "1">>)}

\* the event times of a list of n logs in chronological order
Chronologies(n) == {p \in [1..n -> Times] : NonDecreasing(p)}

CallForward ==
    /\ Len(calls) = 0
    /\ \E n \in 1..MaxLogs :
          \E c \in [1..n -> ReverseEvents], p \in Chronologies(n) :
              FromLogs(Stamped(c, p), MergeRange)

CallReversed ==
    /\ Len(calls) = 1
    /\ Len(returns) = 1
    /\ FromLogs(Reverse(calls[1]), range)

NextReverse == CallForward \/ CallReversed \/ ProcessLog \/ Return

SpecReverse == Init /\ [][NextReverse]_vars

-----------------------------------------------------------------------------
(* DataStore.map_weapons on its own: the arguments are drawn, the call made *)

\* the names of weapons as the accumulators hold them, and the categories
WeaponNames == {"M1 Garand", "MP 40", "FLARE GUN"}
Categories == {"Rifle", "Submachine Gun"}

\* the dicts weapons_killed_with hands to map_weapons: the sentinel and counts
WeaponDicts ==
    UNION {[W \cup {"None"} -> 0..MaxCount] : W \in SUBSET WeaponNames}

\* category tables such as mappings.FACTIONLESS
Tables == UNION {[W -> Categories] : W \in SUBSET {"M1 Garand", "MP 40"}}

TableLists == UNION {[1..n -> Tables] : n \in 0..MaxTables}

CallMapWeapons ==
    /\ wcall = <<>>
    /\ \E w \in {d \in WeaponDicts : d["None"] = 0
                                     /\ \A k \in DOMAIN d \ {"None"} : d[k] > 0},
          m \in TableLists, skip \in BOOLEAN :
          wcall' = <<[weapons |-> w, mappings |-> m, skip_unmapped |-> skip]>>
    /\ UNCHANGED <<wret, wtable, wtks, replayVars, unionVars, sessionVars>>

ReturnMapWeapons ==
    /\ wcall # <<>>
    /\ wret = <<>>
    /\ wret' = <<map_weapons(wcall[1].weapons, wcall[1].mappings,
                             wcall[1].skip_unmapped)>>
    /\ UNCHANGED <<wcall, wtable, wtks, replayVars, unionVars, sessionVars>>

NextWeapons == CallMapWeapons \/ ReturnMapWeapons

SpecWeapons == Init /\ [][NextWeapons]_vars

-----------------------------------------------------------------------------
(* The weapons table of _get_weapon_stats, built for a replayed match *)

weapons_teamkilled_with(self, mappings, skip_unmapped) ==
    LET d == combine_dicts(weapons_died_to(self, <<>>, FALSE),
                           weapons_killed_with(self, <<>>, FALSE), OpSub)
    IN map_weapons([k \in {n \in DOMAIN d : d[n] > 0} |-> d[k]],
                   mappings, skip_unmapped)

\* total_kills or 1
OrOne(n) == IF n = 0 THEN 1 ELSE n

\* a weapons table with the TKS column whenever it is asked for
get_weapons_table_unguarded(stats, mappings, skip_unmapped, show_tks) ==
    LET weapons == weapons_killed_with(stats, mappings, skip_unmapped)
        total == SumDict(weapons)
        tks == weapons_teamkilled_with(stats, mappings, skip_unmapped)
    IN [header |-> IF show_tks THEN <<"WEAPON", "KILLS", "RATE", "TKS">>
                   ELSE <<"WEAPON", "KILLS", "RATE">>,
        rows |-> {IF show_tks
                  THEN <<w, weapons[w], Round2(weapons[w] * 100, OrOne(total)),
                         Get(tks, w, 0)>>
                  ELSE <<w, weapons[w], Round2(weapons[w] * 100, OrOne(total))>> :
                  w \in DOMAIN weapons}]

\* the list of rows handed to toTable: the header, and a row for every key of
\* weapons_killed_with. The rate is in hundredths of a percent; the rows are
\* given as a set, their order (by kills, descending) is not kept
get_weapons_table(stats, mappings, skip_unmapped, show_tks) ==
    LET weapons == weapons_killed_with(stats, mappings, skip_unmapped)
        total == SumDict(weapons)
        with_tks == show_tks /\ total_kills(stats) + total_teamkills(stats)
                                   = total_deaths(stats)
        tks == weapons_teamkilled_with(stats, mappings, skip_unmapped)
    IN [header |-> IF with_tks THEN <<"WEAPON", "KILLS", "RATE", "TKS">>
                   ELSE <<"WEAPON", "KILLS", "RATE">>,
        rows |-> {IF with_tks
                  THEN <<w, weapons[w], Round2(weapons[w] * 100, OrOne(total)),
                         Get(tks, w, 0)>>
                  ELSE <<w, weapons[w], Round2(weapons[w] * 100, OrOne(total))>> :
                  w \in DOMAIN weapons}]

\* kills, teamkills and suicides of two players
TableEvents ==
    {Kill("p1", Allies, "p2", Axis, "M1 GARAND"),
     Kill("p2", Axis, "p1", Allies, "MP40"),
     Kill("p1", Allies, "p1", Allies, "MP40"),
     Teamkill("p1", Allies, "p2", Allies, "MP40"),
     Suicide("p1", Allies)}

\* the category tables of the calls, such as mappings.FACTIONLESS
TableArguments ==
    {<<>>,
     <<[w \in {"M1 Garand"} |-> "Rifle"]>>,
     <<[w \in {"MP 40"} |-> "Submachine Gun"],
       [w \in {"M1 Garand", "MP 40"} |-> "Rifle"]>>}

CallTable ==
    /\ Len(calls) = 0
    /\ \E n \in 1..MaxLogs :
          \E c \in [1..n -> TableEvents], p \in Basic(n), r \in Ranges :
              FromLogs(Stamped(c, p), r)

GetWeaponsTable ==
    /\ pc = "idle"
    /\ Len(returns) = 1
    /\ returns[1].error = None
    /\ wtable = <<>>
    /\ wtks = <<>>
    /\ \E m \in TableArguments, skip \in BOOLEAN, show \in BOOLEAN :
          wtable' = <<[mappings |-> m, skip_unmapped |-> skip, show_tks |-> show,
                       table |-> get_weapons_table(returns[1].value[1],
                                                   m, skip, show)]>>
    /\ UNCHANGED <<wcall, wret, wtks, replayVars, unionVars, sessionVars>>

\* the DataStores at hand once a match is replayed: the match, its slices by
\* faction, and the union of the match with itself
StoresOf(match) ==
    {DataStore(match.duration, match.players),
     get_data_for_faction(match, Allies),
     get_data_for_faction(match, Axis),
     DataStoreAdd(match, match)}

TeamkilledWith ==
    /\ pc = "idle"
    /\ Len(returns) = 1
    /\ returns[1].error = None
    /\ wtable = <<>>
    /\ wtks = <<>>
    /\ \E D \in StoresOf(returns[1].value[1]), m \in TableArguments,
          skip \in BOOLEAN :
          wtks' = <<[stats |-> D, mappings |-> m, skip_unmapped |-> skip,
                     value |-> weapons_teamkilled_with(D, m, skip)]>>
    /\ UNCHANGED <<wcall, wret, wtable, replayVars, unionVars, sessionVars>>

NextTable ==
    CallTable \/ ProcessLog \/ Return \/ GetWeaponsTable \/ TeamkilledWith

SpecTable == Init /\ [][NextTable]_vars

-----------------------------------------------------------------------------
(* Views of the state used by the properties *)

Ended(k) == k \in 1..Len(returns)
Ok(k) == Ended(k) /\ returns[k].error = None
Match(k) == returns[k].value[1]

\* the steam ids that occur in a list of logs
Ids == {"p1", "p2", None}

HasType(S, pid, type) ==
    \E k \in 1..Len(S) : S[k].type = type /\ S[k].player_steamid = pid

\* the chronological order of the argument S of from_logs
Chronological(S) ==
    IF S # <<>> /\ S[1].event_time > S[Len(S)].event_time THEN Reverse(S) ELSE S

\* the event time of the last join of pid in S (chronological), NoTime if none
LastJoin(S, pid) ==
    LET J == {k \in 1..Len(S) : S[k].type = "player_join_server"
                                 /\ S[k].player_steamid = pid}
    IN IF J = {} THEN NoTime
       ELSE S[CHOOSE k \in J : \A j \in J : j <= k].event_time

-----------------------------------------------------------------------------
(* C3: every match replayed from a stream whose deaths are all the deaths of *)
(* kill and teamkill victims has total_kills + total_teamkills equal to      *)
(* total_deaths, also when an event's killer and victim carry one steam id.  *)

C3_KillsReconcile ==
    \A k \in 1..Len(returns) :
        (Ok(k) /\ \A j \in 1..Len(calls[k]) : calls[k][j].type # "player_suicide")
            => total_kills(Match(k)) + total_teamkills(Match(k))
                   = total_deaths(Match(k))

-----------------------------------------------------------------------------
(* C5: in every state of a replay and in its result, every player's playtime *)
(* is at least 0 and at most the length of the range, end minus start.       *)

-----------------------------------------------------------------------------
(* C6 as stated: a player who sends no leave has final playtime range.end    *)
(* minus session_start, session_start being the range start or the time of   *)
(* the player's last join.                                                   *)

C6_RangeBounds ==
    \A k \in 1..Len(returns) : Ok(k) =>
        \A pid \in DOMAIN Match(k).players \ {None} :
            ~HasType(calls[k], pid, "player_leave_server") =>
                playtime(Match(k).players[pid]) =
                    range.end_time
                      - (IF LastJoin(Chronological(calls[k]), pid) # NoTime
                         THEN LastJoin(Chronological(calls[k]), pid)
                         ELSE range.start_time)

(* C6 amended: the default session bounds are the event times of the first   *)
(* and the last log: a player who sends no leave has final playtime          *)
(* (time of the last log) minus session_start, session_start being the time  *)
(* of the first log or of the player's last join.                            *)

C6_LogBounds ==
    \A k \in 1..Len(returns) : Ok(k) =>
        \A pid \in DOMAIN Match(k).players \ {None} :
            ~HasType(calls[k], pid, "player_leave_server") =>
                LET S == Chronological(calls[k])
                IN playtime(Match(k).players[pid]) =
                      S[Len(S)].event_time
                        - (IF LastJoin(S, pid) # NoTime THEN LastJoin(S, pid)
                           ELSE S[1].event_time)

\* a replay has ended with a player who joined after the first log and never left
C6_Witness ==
    \E k \in 1..Len(returns) : Ok(k) /\
        \E pid \in DOMAIN Match(k).players :
            /\ ~HasType(calls[k], pid, "player_leave_server")
            /\ LastJoin(Chronological(calls[k]), pid) > Chronological(calls[k])[1].event_time
            /\ playtime(Match(k).players[pid]) > 0

-----------------------------------------------------------------------------
(* C7: from_logs called with an empty list of logs raises (IndexError, at    *)
(* logs[0]) and returns no MatchData.                                        *)

C7_EmptyInputRaises ==
    \A k \in 1..Len(returns) :
        calls[k] = <<>> => returns[k].error = "IndexError" /\ returns[k].value = <<>>

C7_Witness ==
    \E k \in 1..Len(returns) : calls[k] = <<>> /\ returns[k].error # None

-----------------------------------------------------------------------------
(* Views for the merge properties *)

\* every accumulator at hand: those of the matches returned and of the union
Accumulators ==
    UNION {{m.players[pid] : pid \in DOMAIN m.players} :
              m \in {Match(k) : k \in {j \in 1..Len(returns) : Ok(j)}} \cup {res}}

\* every DataStore at hand
Stores ==
    {Match(k) : k \in {j \in 1..Len(returns) : Ok(j)}}
    \cup (IF upc = "idle" THEN {} ELSE {res})

AdditiveView(p) ==
    [kills |-> p.kills, deaths |-> p.deaths, teamkills |-> p.teamkills,
     suicides |-> p.suicides, allied_kills |-> p.allied_kills,
     axis_kills |-> p.axis_kills, allied_deaths |-> p.allied_deaths,
     axis_deaths |-> p.axis_deaths, num_matches_played |-> p.num_matches_played,
     playtime |-> playtime(p), weapons |-> p.weapons, causes |-> p.causes,
     victims |-> p._victims, nemeses |-> p._nemeses, names |-> p.names,
     killstreak |-> p.killstreak, deathstreak |-> p.deathstreak]

-----------------------------------------------------------------------------
(* C1: PlayerData.__add__ is commutative and associative on the additive     *)
(* fields (counters, matches played, playtime, the weapon, cause, victim,    *)
(* nemesis and name maps) and on the streak maxima, for accumulators of one  *)
(* steam id.                                                                 *)

C1_MergeCommAssoc ==
    pc = "idle" => \A pid \in Ids :
        LET Of == {p \in Accumulators : p.steam_id = pid}
        IN \A A \in Of : \A B \in Of :
              /\ AdditiveView(PlayerAdd(A, B)) = AdditiveView(PlayerAdd(B, A))
              /\ \A C \in Of :
                    AdditiveView(PlayerAdd(PlayerAdd(A, B), C))
                        = AdditiveView(PlayerAdd(A, PlayerAdd(B, C)))

\* three matches hold one player with different streaks, counters and playtime
C1_Witness ==
    /\ Len(returns) = 3
    /\ \A k \in 1..3 : Ok(k) /\ "p1" \in DOMAIN Match(k).players
    /\ Match(1).players["p1"].killstreak > Match(2).players["p1"].killstreak
    /\ Match(2).players["p1"].deaths > Match(1).players["p1"].deaths
    /\ playtime(Match(3).players["p1"]) > 0
    /\ DOMAIN Match(1).players["p1"].weapons # DOMAIN Match(3).players["p1"].weapons

-----------------------------------------------------------------------------
(* C2 as stated: from_logs of a chronological list and of its reversal give  *)
(* the same final statistics of every player and the same scores, also when  *)
(* the first and the last log carry one event time.                          *)

FinalView(p) ==
    [additive |-> AdditiveView(p), faction |-> p.faction, name |-> name(p)]

ResultView(r) ==
    IF r.error # None THEN [error |-> r.error, players |-> EmptyDict, scores |-> <<>>]
    ELSE [error |-> None,
          players |-> [pid \in DOMAIN r.value[1].players |->
                          FinalView(r.value[1].players[pid])],
          scores |-> <<r.value[1].team1_score, r.value[1].team2_score>>]

C2_ReversalAlways ==
    Len(returns) = 2 => ResultView(returns[1]) = ResultView(returns[2])

(* C2 amended: the same, for the lists whose first log is earlier than the   *)
(* last one.                                                                 *)

C2_ReversalWhenSpanning ==
    (Len(returns) = 2
       /\ calls[1][1].event_time < calls[1][Len(calls[1])].event_time)
        => ResultView(returns[1]) = ResultView(returns[2])

\* both replays ended, of a list that changes by reversal and spans some time,
\* with a player that left after a while
C2_Witness ==
    /\ Len(returns) = 2
    /\ calls[1][1].event_time < calls[1][Len(calls[1])].event_time
    /\ calls[2] # calls[1]
    /\ Ok(1) /\ Ok(2)
    /\ \E pid \in DOMAIN Match(2).players :
          /\ Match(2).players[pid]._playtime > 0
          /\ Match(2).players[pid].kills > 0

-----------------------------------------------------------------------------
(* C4: once the faction of a player is Any it stays Any: through every event *)
(* of a replay, through every step of a union, and in every merge of the     *)
(* accumulator with another, as either operand.                              *)

C4_Step ==
    /\ (pc = "loop" /\ pc' = "loop") =>
          \A pid \in DOMAIN data :
              data[pid].faction = Any =>
                  pid \in DOMAIN data' /\ data'[pid].faction = Any
    /\ upc = "loop" =>
          \A pid \in DOMAIN res.players :
              res.players[pid].faction = Any =>
                  pid \in DOMAIN res'.players /\ res'.players[pid].faction = Any
    /\ \A A \in Accumulators : \A B \in Accumulators :
          A.faction = Any =>
              PlayerAdd(A, B).faction = Any /\ PlayerAdd(B, A).faction = Any

C4_AnyIsFinal == [][C4_Step]_vars

\* a replay made the faction of p1 Any at its first log and then saw a kill, a
\* teamkill, a suicide and a team switch of p1; a union then merged that
\* accumulator with one of a known faction
C4_Witness ==
    /\ upc = "loop" /\ uidx = 3
    /\ calls[1][1].type = "player_switch_team" /\ Len(calls[1]) = 5
    /\ matches[1].players["p1"].faction = Any
    /\ matches[2].players["p1"].faction \in {Allies, Axis}
    /\ res.players["p1"].faction = Any

-----------------------------------------------------------------------------
(* C8: DataStore.__add__ gives one accumulator for every steam id of either  *)
(* operand and no other: for an id of both operands the sum of the two       *)
(* accumulators (kills, deaths, teamkills, suicides and matches played add   *)
(* up), for an id of one operand that operand's accumulator unchanged; the   *)
(* duration is the sum of the durations.                                     *)

C8_UnionByIdentity ==
    pc = "idle" =>
    \A X \in Stores : \A Y \in Stores :
        LET Z == DataStoreAdd(X, Y)
            both == DOMAIN X.players \cap DOMAIN Y.players
        IN /\ DOMAIN Z.players = DOMAIN X.players \cup DOMAIN Y.players
           /\ Z.duration = X.duration + Y.duration
           /\ \A pid \in DOMAIN Z.players :
                 /\ Z.players[pid].steam_id = pid
                 /\ pid \in both =>
                       /\ Z.players[pid].kills
                             = X.players[pid].kills + Y.players[pid].kills
                       /\ Z.players[pid].deaths
                             = X.players[pid].deaths + Y.players[pid].deaths
                       /\ Z.players[pid].teamkills
                             = X.players[pid].teamkills + Y.players[pid].teamkills
                       /\ Z.players[pid].suicides
                             = X.players[pid].suicides + Y.players[pid].suicides
                       /\ Z.players[pid].num_matches_played
                             = X.players[pid].num_matches_played
                                 + Y.players[pid].num_matches_played
                 /\ pid \in DOMAIN X.players \ DOMAIN Y.players =>
                       Z.players[pid] = X.players[pid]
                 /\ pid \in DOMAIN Y.players \ DOMAIN X.players =>
                       Z.players[pid] = Y.players[pid]

\* the union has merged two matches that share a player with kills in both
\* (2 and 1, giving 3 and two matches played) and differ in another player
C8_Witness ==
    /\ upc = "loop" /\ uidx = 3
    /\ matches[1].players["p1"].kills = 2
    /\ matches[2].players["p1"].kills = 1
    /\ res.players["p1"].kills = 3
    /\ res.players["p1"].num_matches_played = 2
    /\ None \in DOMAIN matches[2].players \ DOMAIN matches[1].players
    /\ res.players[None] = matches[2].players[None]

-----------------------------------------------------------------------------
(* C9: no derived rate raises on a zero divisor: on every DataStore (also    *)
(* one with no players, no deaths or no duration) kill_death_ratio,          *)
(* avg_kills, avg_teamkills, avg_deaths, avg_time_played, avg_kills_per_min  *)
(* and avg_deaths_per_min return a value, and so do kill_death_ratio and     *)
(* kills_per_minute of every player.                                         *)

C9_RatesNeverRaise ==
    \A D \in Stores :
        /\ kill_death_ratio(D).error = None
        /\ avg_kills(D).error = None
        /\ avg_teamkills(D).error = None
        /\ avg_deaths(D).error = None
        /\ avg_time_played(D).error = None
        /\ avg_kills_per_min(D).error = None
        /\ avg_deaths_per_min(D).error = None
        /\ \A pid \in DOMAIN D.players :
              /\ player_kill_death_ratio(D.players[pid]).error = None
              /\ kills_per_minute(D.players[pid]).error = None

-----------------------------------------------------------------------------
(* C10 as stated: a weapon that is a key of more than one table is counted   *)
(* under the category the last of these tables gives it.                     *)

\* the tables of the call that have w as a key, by position
Holding(w) == {k \in 1..Len(wcall[1].mappings) : w \in DOMAIN wcall[1].mappings[k]}

FirstHolding(w) == CHOOSE k \in Holding(w) : \A j \in Holding(w) : k <= j
LastHolding(w) == CHOOSE k \in Holding(w) : \A j \in Holding(w) : k >= j

\* the category the first (the last) table that has w gives it, w if in none
CategoryByFirst(w) ==
    IF Holding(w) = {} THEN w ELSE wcall[1].mappings[FirstHolding(w)][w]
CategoryByLast(w) ==
    IF Holding(w) = {} THEN w ELSE wcall[1].mappings[LastHolding(w)][w]

C10_LaterTableWins ==
    wret # <<>> =>
        \A w \in DOMAIN wcall[1].weapons :
            Cardinality(Holding(w)) > 1 =>
                LET c == CategoryByLast(w)
                IN /\ c \in DOMAIN wret[1]
                   /\ wret[1][c] =
                        SumOver(wcall[1].weapons,
                                {v \in DOMAIN wcall[1].weapons :
                                    Holding(v) # {} /\ CategoryByLast(v) = c})

(* C10 amended: it is counted under the category the first of these tables   *)
(* gives it.                                                                 *)

C10_EarlierTableWins ==
    wret # <<>> =>
        \A w \in DOMAIN wcall[1].weapons :
            Cardinality(Holding(w)) > 1 =>
                LET c == CategoryByFirst(w)
                IN /\ c \in DOMAIN wret[1]
                   /\ wret[1][c] =
                        SumOver(wcall[1].weapons,
                                {v \in DOMAIN wcall[1].weapons :
                                    Holding(v) # {} /\ CategoryByFirst(v) = c})

\* a call returned for a weapon that two tables put in different categories
C10_Witness ==
    /\ wret # <<>>
    /\ \E w \in DOMAIN wcall[1].weapons :
          /\ Cardinality(Holding(w)) > 1
          /\ CategoryByFirst(w) # CategoryByLast(w)
          /\ wcall[1].weapons[w] > 0

-----------------------------------------------------------------------------
(* C11: map_weapons gives every key of its result the sum of the counts of   *)
(* the raw ids folded into it; an id that is a key of no table given is kept *)
(* under its own name with its count when skip_unmapped is false and is no   *)
(* key of the result when skip_unmapped is true; with skip_unmapped false    *)
(* the sum of all counts is kept; the call leaves its arguments as they were.*)

\* the ids of the call that are folded into the key c of the result
FoldedInto(c) ==
    {v \in DOMAIN wcall[1].weapons :
        /\ Holding(v) # {} \/ ~wcall[1].skip_unmapped
        /\ CategoryByFirst(v) = c}

C11_Folded ==
    /\ \A c \in DOMAIN wret[1] :
          wret[1][c] = SumOver(wcall[1].weapons, FoldedInto(c))
    /\ \A v \in DOMAIN wcall[1].weapons :
          Holding(v) = {} =>
              IF wcall[1].skip_unmapped THEN v \notin DOMAIN wret[1]
              ELSE v \in DOMAIN wret[1] /\ wret[1][v] = wcall[1].weapons[v]
    /\ ~wcall[1].skip_unmapped => SumDict(wret[1]) = SumDict(wcall[1].weapons)

C11_Frame == wcall # <<>> => wcall' = wcall

C11_MapWeaponsFolds == [](wret # <<>> => C11_Folded) /\ [][C11_Frame]_vars

\* the same for the calls that give a table: these are as C11 says
C11_FoldsWithTables ==
    [](wret # <<>> /\ wcall[1].mappings # <<>> => C11_Folded) /\ [][C11_Frame]_vars

\* a call with two ids of one category and an id of no table has returned
C11_Reached ==
    /\ wret # <<>>
    /\ wcall[1].mappings # <<>>
    /\ \E c \in DOMAIN wret[1] : Cardinality(FoldedInto(c)) > 1
    /\ \E v \in DOMAIN wcall[1].weapons : Holding(v) = {} /\ wcall[1].weapons[v] > 0

-----------------------------------------------------------------------------
(* C12: the faction of a merge is the join of the factions of its operands   *)
(* in the widening lattice (unset below Allies and Axis, these below Any),   *)
(* so it is the same for both orders of the operands and for both groupings  *)
(* of three operands.                                                        *)

\* the join of two factions in the widening lattice
FactionJoin(x, y) ==
    IF x = None THEN y
    ELSE IF y = None THEN x
    ELSE IF x = y THEN x
    ELSE Any

C12_FactionLattice ==
    pc = "idle" => \A pid \in Ids :
        LET Of == {p \in Accumulators : p.steam_id = pid}
        IN \A A \in Of : \A B \in Of :
              /\ PlayerAdd(A, B).faction = FactionJoin(A.faction, B.faction)
              /\ PlayerAdd(A, B).faction = PlayerAdd(B, A).faction
              /\ \A C \in Of :
                    PlayerAdd(PlayerAdd(A, B), C).faction
                        = PlayerAdd(A, PlayerAdd(B, C)).faction

-----------------------------------------------------------------------------
(* C13: in a replay, a kill, teamkill or suicide log that carries no team    *)
(* for a player leaves the faction of that player as it was (unset stays     *)
(* unset, Allies stays Allies); a faction becomes Any only by a log whose    *)
(* known team differs from the known faction, or by a switch between teams.  *)

\* the faction of pid before the log at hand, unset if not referenced yet
FactionBefore(pid) == IF pid \in DOMAIN data THEN data[pid].faction ELSE None

C13_Step ==
    (pc = "loop" /\ idx <= Len(logs) /\ idx' = idx + 1) =>
        LET log == logs[idx]
            pid == log.player_steamid
            pid2 == log.player2_steamid
            combat == log.type \in {"player_kill", "player_teamkill"}
        IN /\ ((combat \/ log.type = "player_suicide")
                  /\ log.player_team = None /\ pid # pid2)
                 => data'[pid].faction = FactionBefore(pid)
           /\ (combat /\ log.player2_team = None /\ pid # pid2)
                 => data'[pid2].faction = FactionBefore(pid2)
           /\ \A p \in DOMAIN data' :
                 (data'[p].faction = Any /\ FactionBefore(p) # Any) =>
                     \/ /\ p = pid
                        /\ log.type = "player_switch_team"
                        /\ log.new # None
                        /\ \/ log.old # None
                           \/ /\ log.new # FactionBefore(p)
                              /\ FactionBefore(p) # None
                     \/ /\ p = pid
                        /\ combat \/ log.type = "player_suicide"
                        /\ log.player_team \notin {None, FactionBefore(p)}
                        /\ FactionBefore(p) # None
                     \/ /\ p = pid2
                        /\ combat
                        /\ log.player2_team \notin {None, FactionBefore(p)}
                        /\ FactionBefore(p) # None

C13_AbsentFactionKeeps == [][C13_Step]_vars

(* C13 amended: a kill, teamkill or suicide log that carries no team for a   *)
(* player is an observation of Any and makes the faction of that player Any, *)
(* from unset as from Allies or Axis; a faction becomes Any only so, by a    *)
(* known team that differs from the known faction, or by a switch between    *)
(* teams.                                                                    *)

C13_WidenStep ==
    (pc = "loop" /\ idx <= Len(logs) /\ idx' = idx + 1) =>
        LET log == logs[idx]
            pid == log.player_steamid
            pid2 == log.player2_steamid
            combat == log.type \in {"player_kill", "player_teamkill"}
        IN /\ ((combat \/ log.type = "player_suicide")
                  /\ log.player_team = None /\ pid # pid2)
                 => data'[pid].faction = Any
           /\ (combat /\ log.player2_team = None /\ pid # pid2)
                 => data'[pid2].faction = Any
           /\ \A p \in DOMAIN data' :
                 (data'[p].faction = Any /\ FactionBefore(p) # Any) =>
                     \/ /\ p = pid
                        /\ log.type = "player_switch_team"
                        /\ log.new # None
                        /\ \/ log.old # None
                           \/ /\ log.new # FactionBefore(p)
                              /\ FactionBefore(p) # None
                     \/ /\ p = pid
                        /\ combat \/ log.type = "player_suicide"
                        /\ \/ log.player_team = None
                           \/ /\ log.player_team # FactionBefore(p)
                              /\ FactionBefore(p) # None
                     \/ /\ p = pid2
                        /\ combat
                        /\ \/ log.player2_team = None
                           \/ /\ log.player2_team # FactionBefore(p)
                              /\ FactionBefore(p) # None

C13_AbsentFactionWidens == [][C13_WidenStep]_vars

\* a player of a known faction, and one not seen before, were the killer and
\* the victim of a log without a team for either
C13_Witness ==
    /\ pc = "loop" /\ idx = 3
    /\ logs[1].type = "player_kill" /\ logs[2].type = "player_kill"
    /\ logs[1].player_steamid = logs[2].player_steamid
    /\ logs[1].player_team = Allies /\ logs[2].player_team = None
    /\ data[logs[2].player_steamid].faction = Any

-----------------------------------------------------------------------------
(* C14: a replay of kill logs closed by a match-ended log gives every player *)
(* as many kills as kill logs name the player as killer and as many deaths   *)
(* as name the player as victim, the winner the scores of the message give,  *)
(* and a weapons_killed_with() without tables that maps the weapons used to  *)
(* their numbers of kills and has no other key.                              *)

\* a list of kill logs, killer and victim being two players, then one
\* match-ended log with two scores
KillsThenEnd(S) ==
    /\ Len(S) >= 2
    /\ S[Len(S)].type = "server_match_ended"
    /\ Len(S[Len(S)].message) = 2
    /\ \A j \in 1..2 : S[Len(S)].message[j] \in DOMAIN IntOf
    /\ \A j \in 1..(Len(S) - 1) :
          S[j].type = "player_kill" /\ S[j].player_steamid # S[j].player2_steamid

KillLogs(S) == {j \in 1..Len(S) : S[j].type = "player_kill"}

\* the name from_logs counts the weapon of a log under
WeaponName(log) ==
    IF log.weapon \in DOMAIN WEAPONS THEN WEAPONS[log.weapon] ELSE log.weapon

C14_ExampleReplay ==
    \A k \in 1..Len(returns) :
        (Ok(k) /\ KillsThenEnd(Chronological(calls[k]))) =>
            LET S == Chronological(calls[k])
                M == Match(k)
                used == {WeaponName(S[j]) : j \in KillLogs(S)}
                s1 == IntOf[S[Len(S)].message[1]]
                s2 == IntOf[S[Len(S)].message[2]]
            IN /\ \A pid \in {"p1", "p2"} :
                     LET by == {j \in KillLogs(S) : S[j].player_steamid = pid}
                         of == {j \in KillLogs(S) : S[j].player2_steamid = pid}
                     IN (by \cup of # {}) =>
                           /\ pid \in DOMAIN M.players
                           /\ M.players[pid].kills = Cardinality(by)
                           /\ M.players[pid].deaths = Cardinality(of)
               /\ winner(M) = IF s1 > s2 THEN Allies
                              ELSE IF s1 < s2 THEN Axis ELSE Any
               /\ weapons_killed_with(M, <<>>, FALSE)
                     = [w \in used |->
                           Cardinality({j \in KillLogs(S) : WeaponName(S[j]) = w})]

\* the same with the key 'None' of count 0 in the breakdown: this is what the
\* replays give
C14_WithSentinel ==
    \A k \in 1..Len(returns) :
        (Ok(k) /\ KillsThenEnd(Chronological(calls[k]))) =>
            LET S == Chronological(calls[k])
                M == Match(k)
                used == {WeaponName(S[j]) : j \in KillLogs(S)}
                s1 == IntOf[S[Len(S)].message[1]]
                s2 == IntOf[S[Len(S)].message[2]]
            IN /\ \A pid \in {"p1", "p2"} :
                     LET by == {j \in KillLogs(S) : S[j].player_steamid = pid}
                         of == {j \in KillLogs(S) : S[j].player2_steamid = pid}
                     IN (by \cup of # {}) =>
                           /\ pid \in DOMAIN M.players
                           /\ M.players[pid].kills = Cardinality(by)
                           /\ M.players[pid].deaths = Cardinality(of)
               /\ winner(M) = IF s1 > s2 THEN Allies
                              ELSE IF s1 < s2 THEN Axis ELSE Any
               /\ weapons_killed_with(M, <<>>, FALSE)
                     = [w \in used \cup {"None"} |->
                           Cardinality({j \in KillLogs(S) : WeaponName(S[j]) = w})]

\* a replay of two kills by one weapon and a match-ended log has returned
C14_Reached ==
    \E k \in 1..Len(returns) :
        /\ Ok(k) /\ KillsThenEnd(Chronological(calls[k]))
        /\ Len(calls[k]) = 3
        /\ Match(k).players["p1"].kills = 1 /\ Match(k).players["p1"].deaths = 1
        /\ winner(Match(k)) = Allies

-----------------------------------------------------------------------------
(* C15: winner and loser are functions of the two scores; a replay without *)
(* a match-ended log is a 0-0 draw                                          *)

\* the match-ended logs of S, by position
EndLogs(S) == {j \in 1..Len(S) : S[j].type = "server_match_ended"}

\* C15: in every match a replay returned, team1_score > team2_score gives
\* winner Allies and loser Axis, team1_score < team2_score gives winner Axis
\* and loser Allies, equal scores give Any and Any, winner = loser exactly
\* when the scores are equal; the scores are those of the last match-ended
\* log replayed, and 0 and 0 (a draw) when the stream has none
C15_WinnerByScores ==
    \A k \in 1..Len(returns) :
        Ok(k) =>
            LET M == Match(k)
                S == Chronological(calls[k])
                E == EndLogs(S)
                t1 == M.team1_score
                t2 == M.team2_score
            IN /\ t1 > t2 => winner(M) = Allies /\ loser(M) = Axis
               /\ t1 < t2 => winner(M) = Axis /\ loser(M) = Allies
               /\ t1 = t2 => winner(M) = Any /\ loser(M) = Any
               /\ (winner(M) = loser(M)) <=> (t1 = t2)
               /\ E = {} => t1 = 0 /\ t2 = 0 /\ winner(M) = Any /\ loser(M) = Any
               /\ E # {} =>
                     LET last == CHOOSE j \in E : \A i \in E : i <= j
                     IN /\ t1 = IntOf[S[last].message[1]]
                        /\ t2 = IntOf[S[last].message[2]]

\* a replay ended by '1 - 2' has returned: Axis won, Allies lost
C15_Witness ==
    \E k \in 1..Len(returns) :
        /\ Ok(k)
        /\ EndLogs(calls[k]) # {}
        /\ Match(k).team1_score = 1 /\ Match(k).team2_score = 2
        /\ winner(Match(k)) = Axis /\ loser(Match(k)) = Allies

\* a replay of kills without a match-ended log has returned a 0-0 draw
C15_DrawReached ==
    \E k \in 1..Len(returns) :
        /\ Ok(k)
        /\ calls[k] # <<>> /\ EndLogs(calls[k]) = {}
        /\ Match(k).team1_score = 0 /\ Match(k).team2_score = 0
        /\ winner(Match(k)) = Any

-----------------------------------------------------------------------------
(* C16: a match-ended message that is not two integers fails the replay *)

\* message.split(' - ') is exactly two integers
TwoIntegers(parts) ==
    Len(parts) = 2 /\ \A j \in 1..2 : parts[j] \in DOMAIN IntOf

\* the message of the last match-ended log of S (S has one)
EndMessage(S) ==
    S[CHOOSE j \in EndLogs(S) : \A i \in EndLogs(S) : i <= j].message

\* C16: a replay whose match-ended message does not split into exactly two
\* integers (too few parts, too many parts, a part that is no integer) ends
\* with an exception and returns no MatchData
C16_MalformedFails ==
    \A k \in 1..Len(returns) :
        LET S == Chronological(calls[k])
        IN (EndLogs(S) # {} /\ ~TwoIntegers(EndMessage(S))) =>
               returns[k].error # None /\ returns[k].value = <<>>

\* what the replays do: fewer than two parts raise IndexError, a first or
\* second part that is no integer raises ValueError, and any message of two
\* or more parts whose first two are integers gives a match of these scores
C16_FirstTwoParts ==
    \A k \in 1..Len(returns) :
        LET S == Chronological(calls[k])
        IN EndLogs(S) # {} =>
              LET parts == EndMessage(S)
              IN IF Len(parts) < 2
                 THEN returns[k] = Raised("IndexError")
                 ELSE IF parts[1] \notin DOMAIN IntOf \/ parts[2] \notin DOMAIN IntOf
                 THEN returns[k] = Raised("ValueError")
                 ELSE /\ Ok(k)
                      /\ Match(k).team1_score = IntOf[parts[1]]
                      /\ Match(k).team2_score = IntOf[parts[2]]

\* a replay ended by a message of three parts has returned a match
C16_ThreePartsReturned ==
    \E k \in 1..Len(returns) :
        /\ Ok(k)
        /\ EndLogs(calls[k]) # {}
        /\ Len(EndMessage(Chronological(calls[k]))) = 3

\* replays have failed on a message of one part and on a non-integer part
C16_FailureReached ==
    \E k \in 1..Len(returns) :
        /\ EndLogs(calls[k]) # {}
        /\ returns[k].error \in {"IndexError", "ValueError"}

-----------------------------------------------------------------------------
(* C17: a leave of a player who is already offline changes nothing *)

\* {k: v for k, v in d.items() if k != 'None'}
WithoutNone(d) == [k \in DOMAIN d \ {"None"} |-> d[k]]

\* PlayerData.to_dict, the argument of the warning leave prints; max() of
\* name raises ValueError on an empty names. victims and nemeses are given by
\* the steam_id of the PlayerData whose name the code writes
to_dict(self) ==
    IF DOMAIN self.names = {} THEN Raised("ValueError")
    ELSE Returned([name |-> CHOOSE n \in name(self) : TRUE,
                   steam_id |-> self.steam_id,
                   kills |-> self.kills,
                   deaths |-> self.deaths,
                   teamkills |-> self.teamkills,
                   max_killstreak |-> self.killstreak,
                   max_deathstreak |-> self.deathstreak,
                   weapons_used |-> WithoutNone(self.weapons),
                   weapons_died_to |-> WithoutNone(self.causes),
                   victims |-> WithoutNone(NoneIfEmpty(self._victims)),
                   nemeses |-> WithoutNone(NoneIfEmpty(self._nemeses)),
                   num_matches_played |-> self.num_matches_played,
                   playtime |-> playtime(self)])

\* the log to replay next is a leave of a player whose session is closed
LeaveWhileOffline ==
    /\ pc = "loop"
    /\ idx <= Len(logs)
    /\ logs[idx].type = "player_leave_server"
    /\ logs[idx].player_steamid \in DOMAIN data
    /\ data[logs[idx].player_steamid]._sess_start = NoTime

C17_Step ==
    LeaveWhileOffline =>
        /\ to_dict(data[logs[idx].player_steamid]).error = None
        /\ data' = data
        /\ \A pid \in DOMAIN data : playtime(data'[pid]) = playtime(data[pid])
        /\ data'[logs[idx].player_steamid]._sess_start = NoTime
        /\ pc' = "loop"
        /\ idx' = idx + 1
        /\ returns' = returns

\* C17: replaying a leave of a player who is offline leaves the playtime and
\* every other field of every accumulator as it was, the player stays
\* offline, the warning's to_dict does not raise, and the replay goes on with
\* the next log
C17_LeaveOfflineNoOp == [][C17_Step]_vars

\* a replay of a log at 0, a leave of p1 at 1 and a second leave of p1 at 2
\* has returned a match, and p1's playtime is that of the first leave
C17_Witness ==
    \E k \in 1..Len(returns) :
        /\ Ok(k)
        /\ Len(calls[k]) = 3
        /\ calls[k][1].event_time = 0
        /\ calls[k][2].type = "player_leave_server"
        /\ calls[k][3].type = "player_leave_server"
        /\ calls[k][2].player_steamid = "p1"
        /\ calls[k][3].player_steamid = "p1"
        /\ calls[k][2].event_time = 1
        /\ calls[k][3].event_time = 2
        /\ Match(k).players["p1"]._sess_start = NoTime
        /\ playtime(Match(k).players["p1"]) = 1

-----------------------------------------------------------------------------
(* C18: union and the merge of accumulators leave their operands as they are *)

C18_Step ==
    /\ upc' # "idle" => returns' = returns
    /\ (upc = "loop" /\ upc' = "done" /\ group_stats # <<>>) =>
           group_stats' = group_stats

\* C18: no step of a union changes a match of the group (its duration, its
\* players, any field of any accumulator in it), however often stats is
\* read, and a call of union returns the aggregate the call before it
\* returned
C18_UnionKeepsOperands == [][C18_Step]_vars

\* a second union over two matches that share a player is about to return,
\* with the aggregate the first one returned
C18_Witness ==
    /\ upc = "loop"
    /\ uidx > Len(matches)
    /\ Len(matches) >= 2
    /\ "p1" \in DOMAIN matches[1].players \cap DOMAIN matches[2].players
    /\ group_stats = <<res>>
    /\ res.players["p1"].num_matches_played >= 2

-----------------------------------------------------------------------------
(* C19: the key 'None' of the weapons and causes maps *)

\* PlayerData.weapon and PlayerData.cause: max() raises ValueError on an
\* empty map, and returns one of the keys of the highest count otherwise
weapon(self) ==
    IF DOMAIN self.weapons = {} THEN Raised("ValueError")
    ELSE Returned(CHOOSE k \in MaxKeys(self.weapons) : TRUE)

cause(self) ==
    IF DOMAIN self.causes = {} THEN Raised("ValueError")
    ELSE Returned(CHOOSE k \in MaxKeys(self.causes) : TRUE)

\* every accumulator at hand: those of the replay under way, of the matches
\* returned and of the aggregate
Everyone == Accumulators \cup {data[pid] : pid \in DOMAIN data}

\* C19: in every state of a replay and of a merge, the weapons map and the
\* causes map of every accumulator hold the key 'None' with count 0, and
\* weapon and cause are defined
C19_SentinelZero ==
    \A p \in Everyone :
        /\ "None" \in DOMAIN p.weapons /\ p.weapons["None"] = 0
        /\ "None" \in DOMAIN p.causes /\ p.causes["None"] = 0
        /\ weapon(p).error = None
        /\ cause(p).error = None

\* the logs replayed so far and those of the matches returned have no kill
\* by a weapon of the name None
NoUnnamedWeapon ==
    \A k \in 1..Len(calls) : \A j \in 1..Len(calls[k]) :
        calls[k][j].weapon # "None"

\* what the replays and merges give: the key is always there and the two
\* queries are defined; its count is 0 unless a weapon of the name None
\* was logged
C19_SentinelPresent ==
    \A p \in Everyone :
        /\ "None" \in DOMAIN p.weapons
        /\ "None" \in DOMAIN p.causes
        /\ weapon(p).error = None
        /\ cause(p).error = None
        /\ NoUnnamedWeapon => p.weapons["None"] = 0 /\ p.causes["None"] = 0

\* an accumulator without kills and deaths is in a returned match, and its
\* most used weapon is the key 'None'
C19_EmptyReached ==
    \E k \in 1..Len(returns) :
        /\ Ok(k)
        /\ \E pid \in DOMAIN Match(k).players :
              LET p == Match(k).players[pid]
              IN /\ p.kills = 0 /\ p.deaths = 0
                 /\ DOMAIN p.weapons = {"None"}
                 /\ weapon(p) = Returned("None")

-----------------------------------------------------------------------------
(* C20: the TKS column of the weapons table *)

\* the table has the column of teamkills
HasTks(t) == Len(t.header) = 4 /\ t.header[4] = "TKS"

\* C20: a weapons table has the TKS column only when total_kills +
\* total_teamkills = total_deaths for the DataStore it is built for; when
\* the two sides differ, as they do whenever a suicide was recorded, the
\* table has no TKS column and no row has a cell for it
C20_TksOnlyWhenReconciled ==
    wtable # <<>> =>
        LET M == Match(1)
            t == wtable[1].table
            reconciled == total_kills(M) + total_teamkills(M) = total_deaths(M)
        IN /\ HasTks(t) => reconciled
           /\ ~reconciled => /\ ~HasTks(t)
                             /\ \A row \in t.rows : Len(row) = 3
           /\ total_suicides(M) > 0 => ~reconciled /\ ~HasTks(t)
           /\ HasTks(t) <=> (wtable[1].show_tks /\ reconciled)
           /\ HasTks(t) => \A row \in t.rows : Len(row) = 4

\* a table with the TKS column has been built for a match with a kill and a
\* teamkill
C20_Witness ==
    /\ wtable # <<>>
    /\ HasTks(wtable[1].table)
    /\ total_kills(Match(1)) > 0
    /\ total_teamkills(Match(1)) > 0

\* a table was asked with show_tks for a match with a suicide, and has no
\* TKS column
C20_OmittedReached ==
    /\ wtable # <<>>
    /\ wtable[1].show_tks
    /\ total_suicides(Match(1)) > 0
    /\ total_kills(Match(1)) > 0
    /\ ~HasTks(wtable[1].table)

-----------------------------------------------------------------------------
(* C21: how kill, death and suicide move the streaks *)

\* the accumulator the loop takes for pid: data[pid], or a new PlayerData
Taken(pid) ==
    IF pid \in DOMAIN data THEN data[pid]
    ELSE PlayerData(pid, None, logs_start, logs_end)

\* p has gone to q by a kill of its own
StreakOfKill(p, q) ==
    /\ q._curr_streak = p._curr_streak + 1
    /\ q.killstreak = Max(p.killstreak, p._curr_streak + 1)
    /\ q._curr_deathstreak = 0
    /\ q.deathstreak = p.deathstreak

\* p has gone to q by a death or a suicide
StreakOfDeath(p, q) ==
    /\ q._curr_deathstreak = p._curr_deathstreak + 1
    /\ q.deathstreak = Max(p.deathstreak, p._curr_deathstreak + 1)
    /\ q._curr_streak = 0
    /\ q.killstreak = p.killstreak

C21_Step ==
    (pc = "loop" /\ idx <= Len(logs)) =>
        LET log == logs[idx]
            pid == log.player_steamid
            pid2 == log.player2_steamid
        IN /\ (log.type = "player_kill" /\ pid # pid2) =>
                 /\ StreakOfKill(Taken(pid), data'[pid])
                 /\ StreakOfDeath(Taken(pid2), data'[pid2])
           /\ (log.type = "player_teamkill" /\ pid # pid2) =>
                 StreakOfDeath(Taken(pid2), data'[pid2])
           /\ log.type = "player_suicide" =>
                 StreakOfDeath(Taken(pid), data'[pid])
           /\ (log.type = "player_kill" /\ pid = pid2 /\ pid \in DOMAIN data) =>
                 \* the kill, then the death, of the one accumulator
                 /\ data'[pid].killstreak
                       = Max(data[pid].killstreak, data[pid]._curr_streak + 1)
                 /\ data'[pid]._curr_streak = 0
                 /\ data'[pid]._curr_deathstreak = 1
                 /\ data'[pid].deathstreak = Max(data[pid].deathstreak, 1)

\* C21: replaying a kill adds one to the killer's current kill streak, raises
\* the killer's longest kill streak to it if it is longer, and sets the
\* killer's current death streak to 0; replaying a death (of the victim of a
\* kill or teamkill) or a suicide adds one to the player's current death
\* streak, raises the longest death streak to it if it is longer, and sets
\* the current kill streak to 0
C21_StreakTransitions == [][C21_Step]_vars

\* p1 has killed twice and then died: longest kill streak 2, current kill
\* streak 0, current death streak 1
C21_Witness ==
    /\ pc = "loop"
    /\ idx = 4
    /\ "p1" \in DOMAIN data
    /\ data["p1"].kills = 2
    /\ data["p1"].killstreak = 2
    /\ data["p1"]._curr_streak = 0
    /\ data["p1"]._curr_deathstreak = 1
    /\ data["p1"].deathstreak = 1

-----------------------------------------------------------------------------
(* C22: the faction after a team switch *)

\* the log to replay next is a team switch
AtSwitch == pc = "loop" /\ idx <= Len(logs) /\ logs[idx].type = "player_switch_team"

C22_SetStep ==
    AtSwitch =>
        LET log == logs[idx]
            pid == log.player_steamid
        IN /\ (log.old # None /\ log.new # None) => data'[pid].faction = Any
           /\ (log.old = None /\ log.new # None) =>
                 data'[pid].faction
                    = IF FactionBefore(pid) = Any THEN Any ELSE log.new

\* C22: replaying a team switch that carries an old and a new team makes the
\* player's faction Any; replaying one that carries a new team only makes it
\* the new team, whatever it was before, unless it was Any
C22_SwitchSetsFaction == [][C22_SetStep]_vars

C22_WidenStep ==
    AtSwitch =>
        LET log == logs[idx]
            pid == log.player_steamid
            before == FactionBefore(pid)
        IN /\ (log.old # None /\ log.new # None) => data'[pid].faction = Any
           /\ (log.old = None /\ log.new # None) =>
                 data'[pid].faction
                    = IF before \in {None, log.new} THEN log.new ELSE Any
           /\ log.new = None => data'[pid].faction = before

\* C22 amended: a team switch that carries an old and a new team makes the
\* player's faction Any; one that carries a new team only is an observation
\* of that team: it sets an unset faction to the new team, keeps a faction
\* equal to it, keeps Any, and makes a different known faction Any; one that
\* carries no new team leaves the faction as it was
C22_SwitchObservesFaction == [][C22_WidenStep]_vars

\* p1, of Allies by a kill, has switched to Axis by a log without old team,
\* and is of faction Any
C22_Witness ==
    /\ pc = "loop"
    /\ idx = 3
    /\ logs[1].type = "player_kill"
    /\ logs[1].player_steamid = "p1"
    /\ logs[1].player_team = Allies
    /\ logs[2].type = "player_switch_team"
    /\ logs[2].player_steamid = "p1"
    /\ logs[2].old = None
    /\ logs[2].new = Axis
    /\ data["p1"].faction = Any

-----------------------------------------------------------------------------
(* C23: the teamkills by weapon are the deaths minus the kills, clipped at 0 *)

\* deaths to w minus kills with w, for the weapons where this is positive
ClippedDifference(D) ==
    LET died == weapons_died_to(D, <<>>, FALSE)
        killed == weapons_killed_with(D, <<>>, FALSE)
        diff(w) == Get(died, w, 0) - Get(killed, w, 0)
    IN [w \in {n \in DOMAIN died \cup DOMAIN killed : diff(n) > 0} |-> diff(w)]

\* C23: for every DataStore (a match, a slice of it by faction, a union) and
\* every weapon w, weapons_teamkilled_with reports the deaths to w minus the
\* kills with w when that is positive and nothing otherwise (folded by the
\* category tables when there are any); a weapon with kills and no deaths
\* is not reported
C23_ClippedDifference ==
    wtks # <<>> =>
        wtks[1].value = map_weapons(ClippedDifference(wtks[1].stats),
                                    wtks[1].mappings, wtks[1].skip_unmapped)

\* what the code gives: the clipped difference whenever every weapon with
\* kills in the DataStore has deaths in it, as in a whole match and in a
\* union of whole matches
C23_ClippedWhenPaired ==
    wtks # <<>> =>
        LET D == wtks[1].stats
        IN (DOMAIN weapons_killed_with(D, <<>>, FALSE)
                \subseteq DOMAIN weapons_died_to(D, <<>>, FALSE)) =>
              wtks[1].value = map_weapons(ClippedDifference(D), wtks[1].mappings,
                                          wtks[1].skip_unmapped)

\* in a whole match and in its union with itself every weapon with kills has
\* deaths
C23_WholeIsPaired ==
    wtks # <<>> =>
        LET D == wtks[1].stats
        IN DOMAIN D.players = DOMAIN Match(1).players =>
              DOMAIN weapons_killed_with(D, <<>>, FALSE)
                 \subseteq DOMAIN weapons_died_to(D, <<>>, FALSE)

\* the teamkills by weapon of a whole match with a teamkill were asked
C23_Reached ==
    /\ wtks # <<>>
    /\ DOMAIN wtks[1].stats.players = {"p1", "p2"}
    /\ total_teamkills(wtks[1].stats) > 0
    /\ total_kills(wtks[1].stats) > 0
    /\ wtks[1].mappings = <<>>
    /\ wtks[1].value # EmptyDict

-----------------------------------------------------------------------------
(* C24: MatchGroup.stats is the fold of the merge over the matches *)

\* DataStore.union(*data) as a function of the list of matches
RECURSIVE union(_)
union(ms) ==
    IF ms = <<>> THEN DataStore(0, EmptyDict)
    ELSE DataStoreAdd(union(SubSeq(ms, 1, Len(ms) - 1)), ms[Len(ms)])

\* the sum of f[k] over the positions k of K
RECURSIVE SumAt(_, _)
SumAt(f, K) ==
    IF K = {} THEN 0
    ELSE LET k == CHOOSE j \in K : TRUE IN f[k] + SumAt(f, K \ {k})

\* the fields of the aggregate the sums are claimed for
SummedView(D) ==
    [duration |-> D.duration,
     players |-> [pid \in DOMAIN D.players |->
                     [kills |-> D.players[pid].kills,
                      deaths |-> D.players[pid].deaths,
                      teamkills |-> D.players[pid].teamkills,
                      suicides |-> D.players[pid].suicides,
                      playtime |-> playtime(D.players[pid]),
                      num_matches_played |-> D.players[pid].num_matches_played]]]

\* D is the aggregate of the first n matches of ms
IsFoldOf(D, ms, n) ==
    LET With(pid) == {k \in 1..n : pid \in DOMAIN ms[k].players}
    IN /\ D.duration = SumAt([k \in 1..n |-> ms[k].duration], 1..n)
       /\ DOMAIN D.players = UNION {DOMAIN ms[k].players : k \in 1..n}
       /\ \A pid \in DOMAIN D.players :
             LET p == D.players[pid]
                 K == With(pid)
             IN /\ p.kills = SumAt([k \in K |-> ms[k].players[pid].kills], K)
                /\ p.deaths = SumAt([k \in K |-> ms[k].players[pid].deaths], K)
                /\ p.teamkills = SumAt([k \in K |-> ms[k].players[pid].teamkills], K)
                /\ p.suicides = SumAt([k \in K |-> ms[k].players[pid].suicides], K)
                /\ playtime(p) = SumAt([k \in K |-> playtime(ms[k].players[pid])], K)
                /\ p.num_matches_played = Cardinality(K)

\* the lists of the matches of ms in every order
Orders(ms) ==
    {[k \in 1..Len(ms) |-> ms[f[k]]] :
        f \in {g \in [1..Len(ms) -> 1..Len(ms)] :
                  \A i, j \in 1..Len(ms) : g[i] = g[j] => i = j}}

\* C24: the aggregate union has built from the first matches of a group is
\* their fold: its duration is the sum of their durations, for every steam
\* id its kills, deaths, teamkills, suicides and playtime are the sums over
\* the matches that hold the id and its matches played is the number of
\* these matches; the aggregate returned has these fields the same for the
\* matches in every order, and an empty group gives duration 0 and no
\* players
C24_StatsIsFold ==
    /\ upc = "loop" => IsFoldOf(res, matches, uidx - 1)
    /\ upc = "done" =>
          /\ IsFoldOf(res, matches, Len(matches))
          /\ res = union(matches)
          /\ \A ms \in Orders(matches) :
                SummedView(union(ms)) = SummedView(res)
          /\ matches = <<>> => res.duration = 0 /\ res.players = EmptyDict

\* a union of three matches of different durations has returned: p1 is in
\* all of them with kills in two, the accumulator without steam id in one
C24_Witness ==
    /\ upc = "done"
    /\ Len(matches) = 3
    /\ matches[1].duration # matches[2].duration
    /\ matches[1].players["p1"].kills = 2
    /\ matches[2].players["p1"].kills = 1
    /\ None \in DOMAIN matches[2].players
    /\ None \notin DOMAIN matches[1].players \cup DOMAIN matches[3].players
    /\ res.players["p1"].kills >= 3
    /\ res.players["p1"].num_matches_played = 3
    /\ res.players[None].num_matches_played = 1

\* the union of an empty group has returned
C24_EmptyReached == upc = "done" /\ matches = <<>> /\ res.players = EmptyDict

-----------------------------------------------------------------------------
(* C25: one accumulator for every steam id, holding all that was recorded *)

\* the number of logs of S of one of the types that name pid as the actor
\* (role 1) or as the target (role 2)
Recorded(S, types, pid, role) ==
    Cardinality({j \in 1..Len(S) :
                    /\ S[j].type \in types
                    /\ IF role = 1 THEN S[j].player_steamid = pid
                       ELSE S[j].player2_steamid = pid})

\* the steam ids the logs of S refer to
Referenced(S) ==
    {S[j].player_steamid : j \in 1..Len(S)}
    \cup ({S[j].player2_steamid : j \in 1..Len(S)} \ {None})

\* d holds what the logs of S record
HoldsAll(d, S) ==
    /\ DOMAIN d = Referenced(S)
    /\ \A pid \in DOMAIN d :
          /\ d[pid].steam_id = pid
          /\ d[pid].kills = Recorded(S, {"player_kill"}, pid, 1)
          /\ d[pid].teamkills = Recorded(S, {"player_teamkill"}, pid, 1)
          /\ d[pid].suicides = Recorded(S, {"player_suicide"}, pid, 1)
          /\ d[pid].deaths
                = Recorded(S, {"player_kill", "player_teamkill"}, pid, 2)
                  + Recorded(S, {"player_suicide"}, pid, 1)

\* C25: at every step of a replay there is exactly one accumulator for every
\* steam id a log so far refers to, and it holds all kills, deaths,
\* teamkills and suicides the logs so far record for that id, also when the
\* actor and the target of a log are one id that is referred to for the
\* first time
C25_NothingDropped ==
    pc = "loop" => HoldsAll(data, SubSeq(logs, 1, idx - 1))

\* S has a kill or teamkill whose actor is its target and whom no earlier
\* log refers to
FirstSeenAsBoth(S) ==
    \E j \in 1..Len(S) :
        /\ S[j].type \in {"player_kill", "player_teamkill"}
        /\ S[j].player_steamid = S[j].player2_steamid
        /\ S[j].player_steamid \notin Referenced(SubSeq(S, 1, j - 1))

\* what the replays give: nothing is dropped unless a player is first seen
\* as the actor and the target of one log
C25_DroppedOnlyWhenFirstSeenAsBoth ==
    pc = "loop" =>
        LET S == SubSeq(logs, 1, idx - 1)
        IN ~FirstSeenAsBoth(S) => HoldsAll(data, S)

\* a kill of a player already known by that player has been replayed and
\* counted as a kill and a death
C25_Reached ==
    /\ pc = "loop"
    /\ idx = 3
    /\ logs[2].type = "player_kill"
    /\ logs[2].player_steamid = "p1"
    /\ logs[2].player2_steamid = "p1"
    /\ "p1" \in Referenced(SubSeq(logs, 1, 1))
    /\ data["p1"].kills >= 1
    /\ HoldsAll(data, SubSeq(logs, 1, 2))

-----------------------------------------------------------------------------
(* C27: the totals of a replayed match *)

\* no kill or teamkill log of S has one steam id as actor and target
ActorsDiffer(S) ==
    \A j \in 1..Len(S) :
        S[j].type \in {"player_kill", "player_teamkill"} =>
            S[j].player_steamid # S[j].player2_steamid

\* C27: a match replayed from logs in which the actor and the target of
\* every kill and teamkill differ has total_deaths = total_kills +
\* total_teamkills + total_suicides and total_allied_kills +
\* total_axis_kills <= total_kills
C27_TotalsReconcile ==
    \A k \in 1..Len(returns) :
        (Ok(k) /\ ActorsDiffer(calls[k])) =>
            LET M == Match(k)
            IN /\ total_deaths(M)
                     = total_kills(M) + total_teamkills(M) + total_suicides(M)
               /\ total_allied_kills(M) + total_axis_kills(M) <= total_kills(M)

\* a match with a kill, a teamkill and a suicide has been replayed
C27_Witness ==
    \E k \in 1..Len(returns) :
        /\ Ok(k)
        /\ ActorsDiffer(calls[k])
        /\ total_kills(Match(k)) = 1
        /\ total_teamkills(Match(k)) = 1
        /\ total_suicides(Match(k)) = 1
        /\ total_deaths(Match(k)) = 3

\* a match with a kill by a player whose team the log does not carry has
\* been replayed: the kill is neither an allied nor an axis kill
C27_UnsidedKillReached ==
    \E k \in 1..Len(returns) :
        /\ Ok(k)
        /\ ActorsDiffer(calls[k])
        /\ total_kills(Match(k)) > total_allied_kills(Match(k)) + total_axis_kills(Match(k))

-----------------------------------------------------------------------------
(* C28: the bounds of the streaks *)

StreaksBounded(p) ==
    /\ p.killstreak >= p._curr_streak
    /\ p.deathstreak >= p._curr_deathstreak
    /\ p.killstreak <= p.kills
    /\ p.deathstreak <= p.deaths
    /\ p._curr_streak >= 0 /\ p._curr_deathstreak >= 0
    /\ p._curr_streak = 0 \/ p._curr_deathstreak = 0

\* C28: in every state of a replay every accumulator has its longest kill
\* streak at least its current one and at most its kills, its longest death
\* streak at least its current one and at most its deaths, and not both
\* current streaks above 0; the sum of two accumulators has both current
\* streaks 0 and as longest streaks the larger of those of the operands
C28_StreakBounds ==
    /\ \A p \in Everyone : StreaksBounded(p)
    /\ pc = "idle" => \A pid \in Ids :
          LET Of == {p \in Accumulators : p.steam_id = pid}
          IN \A A \in Of : \A B \in Of :
                LET R == PlayerAdd(A, B)
                IN /\ R._curr_streak = 0
                   /\ R._curr_deathstreak = 0
                   /\ R.killstreak = Max(A.killstreak, B.killstreak)
                   /\ R.deathstreak = Max(A.deathstreak, B.deathstreak)
    /\ upc # "idle" => \A pid \in DOMAIN res.players :
          Cardinality({k \in 1..(uidx - 1) : pid \in DOMAIN matches[k].players}) >= 2
             => /\ res.players[pid]._curr_streak = 0
                /\ res.players[pid]._curr_deathstreak = 0

\* a union has merged p1 of a match with a running kill streak of 2 and p1 of
\* a match with a longest kill streak of 1 and a running death streak: the
\* sum has longest kill streak 2 and no running streak
C28_Witness ==
    /\ upc = "done"
    /\ Len(matches) = 2
    /\ matches[1].players["p1"]._curr_streak = 2
    /\ matches[2].players["p1"].killstreak = 1
    /\ matches[2].players["p1"]._curr_deathstreak > 0
    /\ res.players["p1"].killstreak = 2
    /\ res.players["p1"]._curr_streak = 0
    /\ res.players["p1"]._curr_deathstreak = 0

(***************************************************************************)
(* HLLCaptureSession (src/lib/session.py)                                  *)
(*                                                                         *)
(* One capture session.  Everything runs on one asyncio event loop, so a   *)
(* handler is atomic from one await to the next.  Log lines are numbered   *)
(* in the order the gatherer appends them to the buffer.  The table of the *)
(* session is the sequence of the rows inserted into it; delete_logs       *)
(* empties it.  get_logs is called with its default arguments.             *)
(***************************************************************************)
NUM_LOGS_REQUIRED_FOR_INSERT == 1
MaxPerIteration == 2

\* A datetime difference and a bool are different kinds of value in Python.
Timedelta(d) == [type |-> "timedelta", delta |-> d]
Bool(b) == [type |-> "bool", truth |-> b]

active_in(start, end, clock) ==
    IF start > clock THEN Timedelta(clock - start) ELSE Bool(end > clock)

\* bool(x) of a value active_in returns: a timedelta is falsy only when zero.
Truthy(x) == IF x.type = "timedelta" THEN x.delta # 0 ELSE x.truth

\* insert_many_logs and the reset of the buffer, on the pair (buffer, table).
push_to_db_keeps_buffer(buffered, table) ==
    [_logs |-> buffered,
     storage |-> IF buffered # <<>> THEN table \o buffered ELSE table]

push_to_db(buffered, table) ==
    [_logs |-> <<>>,
     storage |-> IF buffered # <<>> THEN table \o buffered ELSE table]

\* gatherer.stop(): a running loop ends after the iteration it is in or about
\* to run; a loop that is not running is left alone.
GathererStop == stopping \/ gpc \in {"ready", "updating"}

\* HLLCaptureSession(...): the tasks are scheduled when active_in() is truthy.
Construct(s, e) ==
    /\ ~registered
    /\ ~deleted
    /\ start_time' = s
    /\ end_time' = e
    /\ _logs' = <<>>
    /\ start_task' = Truthy(active_in(s, e, now))
    /\ stop_task' = Truthy(active_in(s, e, now))
    /\ registered' = TRUE
    /\ UNCHANGED <<now, active, deleted, deactivating, gpc, stopping, storage,
                   captured, got, replayVars, unionVars, weaponVars>>

Tick ==
    /\ now < MaxTime
    /\ now' = now + 1
    /\ UNCHANGED <<start_time, end_time, active, captureVars,
                   replayVars, unionVars, weaponVars>>

ActiveIn ==
    /\ registered
    /\ active' = <<active_in(start_time, end_time, now)>>
    /\ UNCHANGED <<start_time, end_time, now, captureVars,
                   replayVars, unionVars, weaponVars>>

\* _start_task: activate() at start_time starts the gatherer loop.
Activate ==
    /\ start_task
    /\ now >= start_time
    /\ gpc = "idle"
    /\ start_task' = FALSE
    /\ gpc' = "ready"
    /\ UNCHANGED <<clockVars, registered, deleted, stop_task, deactivating,
                   stopping, _logs, storage, captured, got,
                   replayVars, unionVars, weaponVars>>

\* _stop_task: deactivate() at end_time.
StopTask ==
    /\ stop_task
    /\ now >= end_time
    /\ stop_task' = FALSE
    /\ stopping' = GathererStop
    /\ UNCHANGED <<clockVars, registered, deleted, start_task, deactivating,
                   gpc, _logs, storage, captured, got,
                   replayVars, unionVars, weaponVars>>

\* The deactivate() that delete() scheduled.
Deactivate ==
    /\ deactivating
    /\ deactivating' = FALSE
    /\ stopping' = GathererStop
    /\ UNCHANGED <<clockVars, registered, deleted, start_task, stop_task,
                   gpc, _logs, storage, captured, got,
                   replayVars, unionVars, weaponVars>>

\* stop(): end the session now, stop the gatherer, cancel the tasks.
Stop ==
    /\ registered
    /\ LET a == active_in(start_time, end_time, now)
       IN  /\ start_time' = IF a.type = "timedelta" THEN now ELSE start_time
           /\ end_time' = IF a = Bool(FALSE) THEN end_time ELSE now
    /\ stopping' = GathererStop
    /\ start_task' = FALSE
    /\ stop_task' = FALSE
    /\ UNCHANGED <<now, active, registered, deleted, deactivating, gpc, _logs,
                   storage, captured, got, replayVars, unionVars, weaponVars>>

\* gatherer: an iteration starts and waits for rcon.update().
IterationBegin ==
    /\ gpc = "ready"
    /\ gpc' = "updating"
    /\ UNCHANGED <<clockVars, registered, deleted, start_task, stop_task,
                   deactivating, stopping, _logs, storage, captured, got,
                   replayVars, unionVars, weaponVars>>

\* gatherer: the rest of the iteration appends n log lines to the buffer and
\* pushes it when it holds more than NUM_LOGS_REQUIRED_FOR_INSERT.
IterationEnd(n) ==
    /\ gpc = "updating"
    /\ captured + n <= MaxLogs
    /\ LET appended == _logs \o [i \in 1..n |-> captured + i]
           pushed == IF Len(appended) > NUM_LOGS_REQUIRED_FOR_INSERT
                     THEN push_to_db(appended, storage)
                     ELSE [_logs |-> appended, storage |-> storage]
       IN  /\ _logs' = pushed._logs
           /\ storage' = pushed.storage
    /\ captured' = captured + n
    /\ gpc' = IF stopping THEN "after_loop" ELSE "ready"
    /\ UNCHANGED <<clockVars, registered, deleted, start_task, stop_task,
                   deactivating, stopping, got,
                   replayVars, unionVars, weaponVars>>

\* A stopped loop ends between two iterations.
LoopExit ==
    /\ gpc = "ready"
    /\ stopping
    /\ gpc' = "after_loop"
    /\ UNCHANGED <<clockVars, registered, deleted, start_task, stop_task,
                   deactivating, stopping, _logs, storage, captured, got,
                   replayVars, unionVars, weaponVars>>

\* after_gatherer_stop: after its awaits, the hook pushes the buffer.
AfterGathererStop ==
    /\ gpc = "after_loop"
    /\ LET pushed == push_to_db(_logs, storage)
       IN  /\ _logs' = pushed._logs
           /\ storage' = pushed.storage
    /\ gpc' = "idle"
    /\ stopping' = FALSE
    /\ UNCHANGED <<clockVars, registered, deleted, start_task, stop_task,
                   deactivating, captured, got,
                   replayVars, unionVars, weaponVars>>

PushToDb ==
    /\ registered
    /\ LET pushed == push_to_db(_logs, storage)
       IN  /\ _logs' = pushed._logs
           /\ storage' = pushed.storage
    /\ UNCHANGED <<clockVars, registered, deleted, start_task, stop_task,
                   deactivating, gpc, stopping, captured, got,
                   replayVars, unionVars, weaponVars>>

\* get_logs(): push the buffer, then query the table.
GetLogs ==
    /\ registered
    /\ LET pushed == push_to_db(_logs, storage)
       IN  /\ _logs' = pushed._logs
           /\ storage' = pushed.storage
           /\ got' = <<pushed.storage>>
    /\ UNCHANGED <<clockVars, registered, deleted, start_task, stop_task,
                   deactivating, gpc, stopping, captured,
                   replayVars, unionVars, weaponVars>>

\* delete(): schedule deactivate(), cancel the tasks, delete the logs, mark
\* the session deleted and remove it from SESSIONS.
Delete ==
    /\ registered
    /\ deactivating' = TRUE
    /\ start_task' = FALSE
    /\ stop_task' = FALSE
    /\ storage' = <<>>
    /\ deleted' = TRUE
    /\ registered' = FALSE
    /\ UNCHANGED <<clockVars, gpc, stopping, _logs, captured, got,
                   replayVars, unionVars, weaponVars>>

NextSession ==
    \/ \E s \in Times, e \in Times : Construct(s, e)
    \/ Tick
    \/ ActiveIn
    \/ Activate
    \/ StopTask
    \/ Deactivate
    \/ Stop
    \/ IterationBegin
    \/ \E n \in 0..MaxPerIteration : IterationEnd(n)
    \/ LoopExit
    \/ AfterGathererStop
    \/ PushToDb
    \/ GetLogs
    \/ Delete

SpecSession == Init /\ [][NextSession]_vars

SessTypeOK == captured <= MaxLogs

(***************************************************************************)
(* C26: active_in() returns the non-negative duration start_time - now     *)
(* when start_time is still in the future, and otherwise the boolean       *)
(* end_time > now.                                                         *)
(*                                                                         *)
(* The code returns now - start_time, which is negative: with start_time   *)
(* one unit after now it returns -1.                                       *)
(***************************************************************************)
UntilStart ==
    IF start_time > now THEN Timedelta(start_time - now)
    ELSE Bool(end_time > now)

C26_Step == ActiveIn => active' = <<UntilStart>>

C26_ActiveInUntilStart == [][C26_Step]_vars

\* What the code does: the duration is the negated one; the boolean branch
\* is the one stated.
C26_NegatedStep ==
    ActiveIn =>
        /\ start_time > now =>
               active' = <<Timedelta(0 - (start_time - now))>>
        /\ start_time <= now => active' = <<Bool(end_time > now)>>

C26_NegatedDuration == [][C26_NegatedStep]_vars

C26_NegativeReached ==
    /\ registered
    /\ start_time > now
    /\ active = <<Timedelta(now - start_time)>>

C26_BooleanReached ==
    /\ registered
    /\ start_time <= now
    /\ end_time > now
    /\ active = <<Bool(TRUE)>>

(***************************************************************************)
(* C29: while the session is not deleted, every log line the gatherer      *)
(* appended to the buffer is in the table or still in the buffer, exactly  *)
(* once and in the order captured, under every interleaving of gatherer    *)
(* iterations, push_to_db, get_logs and the stop hook; the buffer is empty *)
(* after each push and whenever the gatherer loop is not running; and      *)
(* get_logs returns every log line captured before the call.               *)
(***************************************************************************)
Captured == [i \in 1..captured |-> i]

C29_Pushes ==
    \/ PushToDb
    \/ GetLogs
    \/ AfterGathererStop
    \/ \E n \in 0..MaxPerIteration :
           IterationEnd(n) /\ Len(_logs) + n > NUM_LOGS_REQUIRED_FOR_INSERT

C29_Step ==
    /\ C29_Pushes => _logs' = <<>>
    /\ GetLogs => got' = <<Captured>>

C29_Accounted ==
    /\ ~deleted => storage \o _logs = Captured
    /\ gpc = "idle" => _logs = <<>>

C29_InsertedExactlyOnce == [](C29_Accounted) /\ [][C29_Step]_vars

\* get_logs flushed one buffered line while the gatherer was running, later
\* lines were pushed by the gatherer or its stop hook, and the loop has ended.
C29_Witness ==
    /\ ~deleted
    /\ got # <<>>
    /\ Len(got[1]) = 1
    /\ captured >= 3
    /\ Len(storage) = captured
    /\ gpc = "idle"

\* The stop hook finds log lines in the buffer that no iteration pushed.
C29_HookPushReached == gpc = "after_loop" /\ _logs # <<>> /\ ~deleted

(***************************************************************************)
(* C30: once delete() has deleted the logs of the session and removed it   *)
(* from SESSIONS, no log line of the session is inserted into the table,   *)
(* not even a line that was in the buffer when delete() was called.        *)
(*                                                                         *)
(* delete() only schedules deactivate(): the gatherer loop is stopped      *)
(* after delete() has returned, and its stop hook then pushes the buffer.  *)
(***************************************************************************)
C30_Step == deleted => Len(storage') <= Len(storage)

C30_NoInsertAfterDelete == [][C30_Step]_vars

\* What does hold: after delete() only the gatherer loop that was running
\* inserts, and nothing is inserted once that loop has ended.
C30_EndedStep == deleted /\ gpc = "idle" => storage' = storage

C30_NoInsertOnceStopped == [][C30_EndedStep]_vars

C30_InsertedAfterDeleteReached == deleted /\ storage # <<>> /\ gpc = "idle"

====
